---------------------------- MODULE Spec2Model ----------------------------
(***************************************************************************)
(* A model of the MCP semantic router: the upstream lifecycle manager      *)
(* (ToolDiscoveryManager), the search catalog (SemanticSearchEngine), the  *)
(* upstream connections (UpstreamConnection) and the tool-call proxy       *)
(* (ToolCallProxy), as cooperatively scheduled asyncio tasks.  One action  *)
(* is the code a task runs between two suspension points (awaits that      *)
(* reach a child process).                                                 *)
(*                                                                         *)
(* Strings are sequences of one-character strings, so that startswith,     *)
(* split('.', 1), strip and lower are computed as Python computes them.    *)
(***************************************************************************)
EXTENDS Integers, Sequences, FiniteSets, Bags, TLC

VARIABLES
    config,            \* RouterConfig.mcp_servers: id -> [semantic_prefix, aliases]
    se_tools,          \* SemanticSearchEngine._tools (the catalog), a list
    all_tools,         \* ToolDiscoveryManager.all_tools (the mirror), a list
    loaded_upstreams,  \* ToolDiscoveryManager._loaded_upstreams: id -> connection (0: no key)
    upstreams,         \* ToolDiscoveryManager.upstreams, the dict the proxy reads
    conns,             \* every UpstreamConnection constructed so far, by identity
    tasks,             \* the suspended coroutines, a bag of task records
    event,             \* what the last step returned to its caller or sent upstream
    frame              \* the locals of a running load_multiple_upstreams or initialize

vars == <<config, se_tools, all_tools, loaded_upstreams, upstreams, conns, tasks,
          event, frame>>

-----------------------------------------------------------------------------
(* Bounds *)

\* UpstreamConnection objects constructed in one run
MaxConns == 2
\* client requests in flight at the same time
MaxTasks == 2

-----------------------------------------------------------------------------
(* Strings *)

Dot == "."
Space == " "

\* str.startswith
StartsWith(s, p) == Len(s) >= Len(p) /\ SubSeq(s, 1, Len(p)) = p

\* '.' in s
HasDot(s) == \E i \in 1..Len(s) : s[i] = Dot

\* index of the first '.', for split('.', 1)
FirstDot(s) == CHOOSE i \in 1..Len(s) : s[i] = Dot /\ \A j \in 1..(i - 1) : s[j] # Dot

\* str.strip() == '' : nothing but whitespace
IsBlank(s) == \A i \in 1..Len(s) : s[i] = Space

\* s.strip().replace('.', '') == ''
OnlyDotsOrBlank(s) == \A i \in 1..Len(s) : s[i] \in {Space, Dot}

LowerChar(c) ==
    CASE c = "A" -> "a"
      [] c = "B" -> "b"
      [] c = "K" -> "k"
      [] OTHER -> c

\* str.lower
Lower(s) == [i \in 1..Len(s) |-> LowerChar(s[i])]

-----------------------------------------------------------------------------
(* Configuration *)

\* the keys of mcp_servers
Upstreams == DOMAIN config

\* dict order of mcp_servers (insertion order of the JSON object)
ServerOrder ==
    IF <<"b">> \in DOMAIN config THEN << <<"a">>, <<"b">> >> ELSE << <<"a">>, << >> >>

\* semantic_prefix None (or ''): `semantic_prefix or upstream_id` takes the id
NoPrefix == << >>

\* the result of a failed lookup
None == << "None" >>

\* (semantic_prefix of a, semantic_prefix of b): none configured; one that
\* is nobody's id; one that is the other upstream's id; one shared by both
PrefixChoices ==
    { <<NoPrefix, NoPrefix>>, << <<"c">>, NoPrefix >>, << <<"b">>, NoPrefix >>,
      << <<"c">>, <<"c">> >> }

\* a configuration whose second key is the empty string
EmptyIdConfig ==
    [u \in { <<"a">>, << >> } |->
        IF u = <<"a">>
        THEN [semantic_prefix |-> NoPrefix, aliases |-> << <<"k">> >>]
        ELSE [semantic_prefix |-> NoPrefix, aliases |-> << >>]]

Configs ==
    { [u \in { <<"a">>, <<"b">> } |->
          IF u = <<"a">>
          THEN [semantic_prefix |-> p[1], aliases |-> << <<"k">> >>]
          ELSE [semantic_prefix |-> p[2], aliases |-> << >>]]
      : p \in PrefixChoices } \cup { EmptyIdConfig }

\* the prefix fetch_tools and generate_tool_namespace put before the tool name
PrefixOf(u) ==
    IF config[u].semantic_prefix # NoPrefix THEN config[u].semantic_prefix ELSE u

generate_tool_namespace(u, original) == PrefixOf(u) \o <<Dot>> \o original

\* parse_tool_namespace raises ValueError
ParseFails(name) ==
    \/ ~HasDot(name)
    \/ LET i == FirstDot(name)
           prefix == SubSeq(name, 1, i - 1)
           tool == SubSeq(name, i + 1, Len(name))
       IN  \/ prefix = << >> \/ IsBlank(prefix)
           \/ tool = << >> \/ IsBlank(tool) \/ OnlyDotsOrBlank(tool)

\* parse_tool_namespace: (prefix, tool_name), split on the first dot
parse_tool_namespace(name) ==
    LET i == FirstDot(name)
    IN  << SubSeq(name, 1, i - 1), SubSeq(name, i + 1, Len(name)) >>

\* match_upstream_by_prefix: the id itself, else the first upstream in dict
\* order whose semantic_prefix is the prefix, else None
match_upstream_by_prefix(prefix) ==
    IF prefix \in Upstreams THEN prefix
    ELSE IF \E i \in 1..Len(ServerOrder) : config[ServerOrder[i]].semantic_prefix = prefix
         THEN ServerOrder[CHOOSE i \in 1..Len(ServerOrder) :
                  /\ config[ServerOrder[i]].semantic_prefix = prefix
                  /\ \A j \in 1..(i - 1) : config[ServerOrder[j]].semantic_prefix # prefix]
         ELSE None

-----------------------------------------------------------------------------
(* AliasResolver *)

\* the (upstream, alias) pairs in the order __init__ registers them
RECURSIVE AliasPairsFrom(_)
AliasPairsFrom(i) ==
    IF i > Len(ServerOrder) THEN << >>
    ELSE LET upstream_id == ServerOrder[i]
             aliases == config[upstream_id].aliases
         IN  [k \in 1..Len(aliases) |-> << Lower(aliases[k]), upstream_id >>]
             \o AliasPairsFrom(i + 1)

AliasPairs == AliasPairsFrom(1)

\* _alias_map[key]: the last registration of the key wins
AliasLookup(key) ==
    LET pairs == AliasPairs
    IN  IF \E i \in 1..Len(pairs) : pairs[i][1] = key
        THEN pairs[CHOOSE i \in 1..Len(pairs) :
                 /\ pairs[i][1] = key
                 /\ \A j \in (i + 1)..Len(pairs) : pairs[j][1] # key][2]
        ELSE None

\* a variant of resolve that looks in the alias map before the ids
resolve_alias_first(name) ==
    IF AliasLookup(Lower(name)) # None THEN AliasLookup(Lower(name))
    ELSE IF name \in Upstreams THEN name ELSE None

\* AliasResolver.resolve; None stands for the ValueError
resolve(name) ==
    IF name \in Upstreams THEN name ELSE AliasLookup(Lower(name))

-----------------------------------------------------------------------------
(* SemanticSearchEngine *)

\* ToolMetadata as fetch_tools builds it; conn is the identity of the
\* UpstreamConnection whose fetch created the object, embedding is
\* `embedding is not None`
ToolMetadata(u, original, c) ==
    [name |-> generate_tool_namespace(u, original), original_name |-> original,
     upstream_id |-> u, embedding |-> FALSE, conn |-> c]

Names(cat) == { cat[i].name : i \in 1..Len(cat) }

\* add_tools raises ValueError: a tool without embedding, or a name that
\* is already in the catalog (an empty batch returns before both checks)
add_tools_raises(cat, batch) ==
    /\ batch # << >>
    /\ \/ \E i \in 1..Len(batch) : ~batch[i].embedding
       \/ \E i \in 1..Len(batch) : batch[i].name \in Names(cat)

\* a variant of add_tools that keeps the acceptable tools of a batch it
\* rejects
add_tools_partial(cat, batch) ==
    cat \o SelectSeq(batch, LAMBDA tool : tool.embedding /\ tool.name \notin Names(cat))

\* add_tools: the catalog afterwards
add_tools(cat, batch) ==
    IF add_tools_raises(cat, batch) THEN cat ELSE cat \o batch

\* set_tools raises ValueError
set_tools_raises(batch) == \E i \in 1..Len(batch) : ~batch[i].embedding

\* set_tools: the catalog afterwards
set_tools(cat, batch) == IF set_tools_raises(batch) THEN cat ELSE batch

\* remove_tools raises ValueError
remove_tools_raises(namespace) == namespace = << >>

InNamespace(tool, namespace) == StartsWith(tool.name, namespace \o <<Dot>>)

\* remove_tools: the catalog afterwards
remove_tools(cat, namespace) ==
    IF remove_tools_raises(namespace) THEN cat
    ELSE SelectSeq(cat, LAMBDA tool : ~InNamespace(tool, namespace))

\* top_k of search_tools as the server calls it
TopK == 10

Min(x, y) == IF x <= y THEN x ELSE y

-----------------------------------------------------------------------------
(* UpstreamConnection *)

NoConn == 0

\* __init__: session is `_session is not None`, stdio is `_stdio_context is
\* not None`, open is whether the child process and its streams are open,
\* ntools is len(self.tools).  Two history fields: disc_called, whether
\* disconnect() was ever called on the object, and registered, whether the
\* object was ever stored in _loaded_upstreams
UpstreamConnection(u) ==
    [upstream_id |-> u, session |-> FALSE, stdio |-> FALSE, open |-> FALSE,
     ntools |-> 0, disc_called |-> FALSE, registered |-> FALSE]

\* how connect() under asyncio.wait_for can end
ConnectOutcomes == {"ok", "fail_spawn", "fail_init", "timeout"}

\* and how connect() called directly can end: the ValueError for a transport
\* other than stdio or a missing command is raised before anything is set
ConnectOutcomesAll == ConnectOutcomes \cup {"unsupported"}

\* the object after connect(): nothing is undone when it raises or is cancelled
connect(conn, outcome) ==
    CASE outcome = "ok" ->
            [conn EXCEPT !.session = TRUE, !.stdio = TRUE, !.open = TRUE]
      [] outcome = "fail_spawn" ->
            [conn EXCEPT !.stdio = TRUE]
      [] outcome \in {"fail_init", "timeout"} ->
            [conn EXCEPT !.session = TRUE, !.stdio = TRUE, !.open = TRUE]
      [] outcome = "unsupported" -> conn

\* is_connected
is_connected(conn) == conn.session

\* how the __aexit__ calls inside disconnect() can end
DisconnectOutcomes == {"ok", "raises"}

\* with the case that only the second __aexit__, of the stdio context, raises
DisconnectOutcomesAll == DisconnectOutcomes \cup {"stdio_raises"}

\* the object after disconnect(): an exception of __aexit__ is swallowed
\* before the attribute is cleared
disconnect(conn, outcome) ==
    CASE outcome = "ok" ->
            [conn EXCEPT !.session = FALSE, !.stdio = FALSE, !.open = FALSE]
      [] outcome = "stdio_raises" /\ conn.stdio ->
            [conn EXCEPT !.session = FALSE]
      [] outcome = "stdio_raises" /\ ~conn.stdio ->
            [conn EXCEPT !.session = FALSE, !.stdio = FALSE, !.open = FALSE]
      [] OTHER -> conn

\* the tool lists tools/list of an upstream can answer with
ToolLists ==
    { << >>, << <<"x">>, <<"y">> >>, << <<"x">>, <<"x">> >> }

\* fetch_tools: the ToolMetadata list built from the response
fetch_tools(u, c, response) ==
    [i \in 1..Len(response) |-> ToolMetadata(u, response[i], c)]

\* generate_tool_embeddings: every tool of the list gets its embedding
generate_tool_embeddings(batch) ==
    [i \in 1..Len(batch) |-> [batch[i] EXCEPT !.embedding = TRUE]]

-----------------------------------------------------------------------------
(* Tasks and what they return *)

\* a coroutine suspended at an await: pc names the await, canon, conn and
\* err are its locals canonical_name, connection and error_msg
Task(op, pc, canon, c, err) ==
    [op |-> op, pc |-> pc, canon |-> canon, conn |-> c, err |-> err]

InFlight == BagCardinality(tasks)

Suspend(t) == tasks (+) SetToBag({t})
Return(t) == tasks (-) SetToBag({t})
Resume(t, next) == Return(t) (+) SetToBag({next})

NoEvent == [kind |-> "none"]

\* no load_multiple_upstreams and no initialize is running
NoFrame == [op |-> "none"]

\* the dict load_upstream returns; conn is the connection the call made
LoadResult(success, upstream, count, error, c) ==
    [kind |-> "load", success |-> success, upstream |-> upstream,
     tool_count |-> count, error |-> error, conn |-> c]

\* the dict unload_upstream returns
UnloadResult(success, upstream, error, c) ==
    [kind |-> "unload", success |-> success, upstream |-> upstream,
     error |-> error, conn |-> c]

\* the names clients pass to load_upstream and unload_upstream
RequestNames == { <<"a">>, <<"b">>, <<"K">>, << >> }

\* the names clients pass to call_tool
CallNames ==
    { <<"a", Dot, "x">>, <<"b", Dot, "x">>, <<"c", Dot, "x">>, <<"z", Dot, "x">>,
      <<"x">> }

\* a variant of ToolCount that counts the tools of every upstream
ToolCountAll(u) == Len(all_tools)

\* len([t for t in self.all_tools if t.upstream_id == canonical_name])
ToolCount(u) == Len(SelectSeq(all_tools, LAMBDA tool : tool.upstream_id = u))

-----------------------------------------------------------------------------
(* ToolDiscoveryManager.load_upstream *)

\* resolve raises ValueError: the except ValueError branch returns the error
load_upstream_unknown(name) ==
    /\ InFlight < MaxTasks
    /\ resolve(name) = None
    /\ event' = LoadResult(FALSE, None, 0, "unknown", NoConn)
    /\ UNCHANGED <<config, se_tools, all_tools, loaded_upstreams, upstreams, conns, tasks>>

\* canonical_name in self._loaded_upstreams: idempotent success
load_upstream_already(name) ==
    /\ InFlight < MaxTasks
    /\ resolve(name) # None
    /\ loaded_upstreams[resolve(name)] # NoConn
    /\ event' = LoadResult(TRUE, resolve(name), ToolCount(resolve(name)), "",
                           NoConn)
    /\ UNCHANGED <<config, se_tools, all_tools, loaded_upstreams, upstreams, conns, tasks>>

\* a new UpstreamConnection is constructed and connect() awaited
load_upstream_connect(name) ==
    /\ InFlight < MaxTasks
    /\ Len(conns) < MaxConns
    /\ resolve(name) # None
    /\ loaded_upstreams[resolve(name)] = NoConn
    /\ conns' = Append(conns, UpstreamConnection(resolve(name)))
    /\ tasks' = Suspend(Task("load", "connect", resolve(name), Len(conns) + 1, ""))
    /\ event' = NoEvent
    /\ UNCHANGED <<config, se_tools, all_tools, loaded_upstreams, upstreams>>

\* connect() ended: on failure the error is returned (no disconnect), on
\* success fetch_tools is awaited
load_upstream_connected(t, outcome) ==
    /\ BagIn(t, tasks) /\ t.op = "load" /\ t.pc = "connect"
    /\ conns' = [conns EXCEPT ![t.conn] = connect(@, outcome)]
    /\ IF outcome = "ok"
       THEN /\ tasks' = Resume(t, [t EXCEPT !.pc = "fetch"])
            /\ event' = NoEvent
       ELSE /\ tasks' = Return(t)
            /\ event' = LoadResult(FALSE, None, 0,
                            IF outcome = "timeout" THEN "connection_timeout"
                            ELSE "connection_failed", t.conn)
    /\ UNCHANGED <<config, se_tools, all_tools, loaded_upstreams, upstreams>>

\* a variant of load_upstream_fetch_failed that returns the error at once
load_upstream_fetch_failed_returns(t) ==
    /\ BagIn(t, tasks) /\ t.op = "load" /\ t.pc = "fetch"
    /\ tasks' = Return(t)
    /\ event' = LoadResult(FALSE, None, 0, "fetch", t.conn)
    /\ UNCHANGED <<config, se_tools, all_tools, loaded_upstreams, upstreams, conns>>

\* fetch_tools raised: disconnect() is awaited before the error is returned
load_upstream_fetch_failed(t) ==
    /\ BagIn(t, tasks) /\ t.op = "load" /\ t.pc = "fetch"
    /\ conns' = [conns EXCEPT ![t.conn].disc_called = TRUE]
    /\ tasks' = Resume(t, [t EXCEPT !.pc = "cleanup", !.err = "fetch"])
    /\ event' = NoEvent
    /\ UNCHANGED <<config, se_tools, all_tools, loaded_upstreams, upstreams>>

\* fetch_tools returned: embeddings, add_tools and the registration run
\* without an await in between; a failure awaits disconnect()
load_upstream_fetched(t, response, embed_ok) ==
    /\ BagIn(t, tasks) /\ t.op = "load" /\ t.pc = "fetch"
    /\ LET batch == fetch_tools(t.canon, t.conn, response)
           embedded == generate_tool_embeddings(batch)
       IN  IF batch # << >> /\ ~embed_ok
           THEN /\ conns' = [conns EXCEPT ![t.conn].ntools = Len(batch),
                                          ![t.conn].disc_called = TRUE]
                /\ tasks' = Resume(t, [t EXCEPT !.pc = "cleanup", !.err = "embed"])
                /\ event' = NoEvent
                /\ UNCHANGED <<se_tools, all_tools, loaded_upstreams, upstreams>>
           ELSE IF add_tools_raises(se_tools, embedded)
           THEN /\ conns' = [conns EXCEPT ![t.conn].ntools = Len(batch),
                                          ![t.conn].disc_called = TRUE]
                /\ se_tools' = add_tools(se_tools, embedded)
                /\ tasks' = Resume(t, [t EXCEPT !.pc = "cleanup", !.err = "add"])
                /\ event' = NoEvent
                /\ UNCHANGED <<all_tools, loaded_upstreams, upstreams>>
           ELSE /\ conns' = [conns EXCEPT ![t.conn].ntools = Len(batch),
                                          ![t.conn].registered = TRUE]
                /\ se_tools' = add_tools(se_tools, embedded)
                /\ loaded_upstreams' = [loaded_upstreams EXCEPT ![t.canon] = t.conn]
                /\ upstreams' = [upstreams EXCEPT ![t.canon] = t.conn]
                /\ all_tools' = all_tools \o embedded
                /\ tasks' = Return(t)
                /\ event' = LoadResult(TRUE, t.canon, Len(embedded), "", t.conn)
    /\ UNCHANGED config

\* the disconnect() of a failed load ended: the error is returned
load_upstream_cleaned(t, outcome) ==
    /\ BagIn(t, tasks) /\ t.op = "load" /\ t.pc = "cleanup"
    /\ conns' = [conns EXCEPT ![t.conn] = disconnect(@, outcome)]
    /\ tasks' = Return(t)
    /\ event' = LoadResult(FALSE, None, 0, t.err, t.conn)
    /\ UNCHANGED <<config, se_tools, all_tools, loaded_upstreams, upstreams>>

-----------------------------------------------------------------------------
(* ToolDiscoveryManager.unload_upstream *)

\* resolve raises ValueError
unload_upstream_unknown(name) ==
    /\ InFlight < MaxTasks
    /\ resolve(name) = None
    /\ event' = UnloadResult(FALSE, None, "unknown", NoConn)
    /\ UNCHANGED <<config, se_tools, all_tools, loaded_upstreams, upstreams, conns, tasks>>

\* a variant of unload_upstream_not_loaded that calls remove_tools first
unload_upstream_not_loaded_removes(name) ==
    /\ InFlight < MaxTasks
    /\ resolve(name) # None
    /\ loaded_upstreams[resolve(name)] = NoConn
    /\ se_tools' = remove_tools(se_tools, resolve(name))
    /\ event' = UnloadResult(TRUE, resolve(name), "", NoConn)
    /\ UNCHANGED <<config, all_tools, loaded_upstreams, upstreams, conns, tasks>>

\* canonical_name not in self._loaded_upstreams: idempotent success
unload_upstream_not_loaded(name) ==
    /\ InFlight < MaxTasks
    /\ resolve(name) # None
    /\ loaded_upstreams[resolve(name)] = NoConn
    /\ event' = UnloadResult(TRUE, resolve(name), "", NoConn)
    /\ UNCHANGED <<config, se_tools, all_tools, loaded_upstreams, upstreams, conns, tasks>>

\* the namespace handed to remove_tools
UnloadNamespace(canonical_name) == canonical_name

\* a variant of unload_upstream_remove_failed that drops the registration
\* before it returns the error
unload_upstream_remove_failed_drops(name) ==
    /\ InFlight < MaxTasks
    /\ resolve(name) # None
    /\ loaded_upstreams[resolve(name)] # NoConn
    /\ remove_tools_raises(resolve(name))
    /\ loaded_upstreams' = [loaded_upstreams EXCEPT ![resolve(name)] = NoConn]
    /\ event' = UnloadResult(FALSE, None, "remove", loaded_upstreams[resolve(name)])
    /\ UNCHANGED <<config, se_tools, all_tools, upstreams, conns, tasks>>

\* remove_tools(namespace) raised: the error is returned, nothing else is done
unload_upstream_remove_failed(name) ==
    /\ InFlight < MaxTasks
    /\ resolve(name) # None
    /\ loaded_upstreams[resolve(name)] # NoConn
    /\ remove_tools_raises(UnloadNamespace(resolve(name)))
    /\ se_tools' = remove_tools(se_tools, UnloadNamespace(resolve(name)))
    /\ event' = UnloadResult(FALSE, None, "remove", loaded_upstreams[resolve(name)])
    /\ UNCHANGED <<config, all_tools, loaded_upstreams, upstreams, conns, tasks>>

\* remove_tools(namespace) ran and connection.disconnect() is awaited; the
\* event is the call made on the search engine
unload_upstream_remove(name) ==
    /\ InFlight < MaxTasks
    /\ resolve(name) # None
    /\ loaded_upstreams[resolve(name)] # NoConn
    /\ ~remove_tools_raises(UnloadNamespace(resolve(name)))
    /\ se_tools' = remove_tools(se_tools, UnloadNamespace(resolve(name)))
    /\ conns' = [conns EXCEPT ![loaded_upstreams[resolve(name)]].disc_called = TRUE]
    /\ tasks' = Suspend(Task("unload", "disconnect", resolve(name),
                             loaded_upstreams[resolve(name)], ""))
    /\ event' = [kind |-> "remove_tools", upstream |-> resolve(name),
                 namespace |-> UnloadNamespace(resolve(name))]
    /\ UNCHANGED <<config, all_tools, loaded_upstreams, upstreams>>

\* a variant of unload_upstream_disconnected that returns an error when
\* disconnect() did not close the session
unload_upstream_disconnected_fails(t, outcome) ==
    /\ BagIn(t, tasks) /\ t.op = "unload" /\ t.pc = "disconnect"
    /\ conns' = [conns EXCEPT ![t.conn] = disconnect(@, outcome)]
    /\ tasks' = Return(t)
    /\ IF loaded_upstreams[t.canon] = NoConn \/ outcome # "ok"
       THEN /\ event' = UnloadResult(FALSE, None, "unexpected", t.conn)
            /\ UNCHANGED <<all_tools, loaded_upstreams, upstreams>>
       ELSE /\ loaded_upstreams' = [loaded_upstreams EXCEPT ![t.canon] = NoConn]
            /\ upstreams' = [upstreams EXCEPT ![t.canon] = NoConn]
            /\ all_tools' = SelectSeq(all_tools,
                                      LAMBDA tool : tool.upstream_id # t.canon)
            /\ event' = UnloadResult(TRUE, t.canon, "", t.conn)
    /\ UNCHANGED <<config, se_tools>>

\* disconnect() ended: the dict entries and the all_tools entries are
\* deleted; `del` of a key that is gone raises KeyError, which the outer
\* except Exception turns into an error result
unload_upstream_disconnected(t, outcome) ==
    /\ BagIn(t, tasks) /\ t.op = "unload" /\ t.pc = "disconnect"
    /\ conns' = [conns EXCEPT ![t.conn] = disconnect(@, outcome)]
    /\ tasks' = Return(t)
    /\ IF loaded_upstreams[t.canon] = NoConn
       THEN /\ event' = UnloadResult(FALSE, None, "unexpected", t.conn)
            /\ UNCHANGED <<all_tools, loaded_upstreams, upstreams>>
       ELSE /\ loaded_upstreams' = [loaded_upstreams EXCEPT ![t.canon] = NoConn]
            /\ upstreams' = [upstreams EXCEPT ![t.canon] = NoConn]
            /\ all_tools' = SelectSeq(all_tools,
                                      LAMBDA tool : tool.upstream_id # t.canon)
            /\ event' = UnloadResult(TRUE, t.canon, "", t.conn)
    /\ UNCHANGED <<config, se_tools>>

-----------------------------------------------------------------------------
(* SemanticSearchEngine.search_tools *)

\* the results: min(top_k, len) catalog tools; which ones rank first is the
\* embedding model's choice.  An empty catalog raises RuntimeError.
search_tools ==
    /\ InFlight < MaxTasks
    /\ IF se_tools = << >>
       THEN event' = [kind |-> "search", success |-> FALSE, results |-> {}]
       ELSE \E S \in SUBSET (1..Len(se_tools)) :
               /\ Cardinality(S) = Min(TopK, Len(se_tools))
               /\ event' = [kind |-> "search", success |-> TRUE,
                            results |-> { se_tools[i] : i \in S }]
    /\ UNCHANGED <<config, se_tools, all_tools, loaded_upstreams, upstreams, conns, tasks>>

-----------------------------------------------------------------------------
(* ToolCallProxy.call_tool *)

ProxyError(name, error) == [kind |-> "proxy_error", name |-> name, error |-> error]

\* a variant of proxy_call_tool_forward that does not look at is_connected
\* and at the registration
proxy_call_tool_forward_unchecked(name) ==
    /\ InFlight < MaxTasks
    /\ ~ParseFails(name)
    /\ LET parsed == parse_tool_namespace(name)
           upstream_id == match_upstream_by_prefix(parsed[1])
       IN  /\ upstream_id # None
           /\ tasks' = Suspend(Task("call", "call_tool", upstream_id,
                                    upstreams[upstream_id], ""))
           /\ event' = [kind |-> "forward", name |-> name, upstream |-> upstream_id,
                        conn |-> upstreams[upstream_id], tool_name |-> parsed[2]]
    /\ UNCHANGED <<config, se_tools, all_tools, loaded_upstreams, upstreams, conns>>

\* the call fails before anything is sent upstream
proxy_call_tool_rejected(name) ==
    /\ InFlight < MaxTasks
    /\ IF ParseFails(name)
       THEN event' = ProxyError(name, "invalid_namespace")
       ELSE LET upstream_id == match_upstream_by_prefix(parse_tool_namespace(name)[1])
            IN  IF upstream_id = None
                THEN event' = ProxyError(name, "no_upstream")
                ELSE /\ IF upstreams[upstream_id] = NoConn THEN TRUE
                        ELSE ~is_connected(conns[upstreams[upstream_id]])
                     /\ event' = ProxyError(name, "not_connected")
    /\ UNCHANGED <<config, se_tools, all_tools, loaded_upstreams, upstreams, conns, tasks>>

\* upstream.call_tool(original_tool_name, arguments) is awaited
proxy_call_tool_forward(name) ==
    /\ InFlight < MaxTasks
    /\ ~ParseFails(name)
    /\ LET parsed == parse_tool_namespace(name)
           upstream_id == match_upstream_by_prefix(parsed[1])
       IN  /\ upstream_id # None
           /\ upstreams[upstream_id] # NoConn
           /\ is_connected(conns[upstreams[upstream_id]])
           /\ tasks' = Suspend(Task("call", "call_tool", upstream_id,
                                    upstreams[upstream_id], ""))
           /\ event' = [kind |-> "forward", name |-> name, upstream |-> upstream_id,
                        conn |-> upstreams[upstream_id], tool_name |-> parsed[2]]
    /\ UNCHANGED <<config, se_tools, all_tools, loaded_upstreams, upstreams, conns>>

\* how the awaited upstream call can end
CallOutcomes == {"result", "timeout", "error"}

\* a variant of proxy_call_tool_done that sends the call again after an error
proxy_call_tool_done_retries(t, outcome) ==
    /\ BagIn(t, tasks) /\ t.op = "call" /\ t.pc = "call_tool"
    /\ tasks' = IF outcome = "error" THEN tasks ELSE Return(t)
    /\ event' = [kind |-> "call_return", upstream |-> t.canon, conn |-> t.conn,
                 outcome |-> outcome]
    /\ UNCHANGED <<config, se_tools, all_tools, loaded_upstreams, upstreams, conns>>

\* a variant of proxy_call_tool_done that forgets an upstream whose call did
\* not return a result
proxy_call_tool_done_unregisters(t, outcome) ==
    /\ BagIn(t, tasks) /\ t.op = "call" /\ t.pc = "call_tool"
    /\ tasks' = Return(t)
    /\ event' = [kind |-> "call_return", upstream |-> t.canon, conn |-> t.conn,
                 outcome |-> outcome]
    /\ loaded_upstreams' = IF outcome = "result" THEN loaded_upstreams
                            ELSE [loaded_upstreams EXCEPT ![t.canon] = NoConn]
    /\ UNCHANGED <<config, se_tools, all_tools, upstreams, conns>>

\* the upstream call ended: the result is returned or the error raised
proxy_call_tool_done(t, outcome) ==
    /\ BagIn(t, tasks) /\ t.op = "call" /\ t.pc = "call_tool"
    /\ tasks' = Return(t)
    /\ event' = [kind |-> "call_return", upstream |-> t.canon, conn |-> t.conn,
                 outcome |-> outcome]
    /\ UNCHANGED <<config, se_tools, all_tools, loaded_upstreams, upstreams, conns>>

-----------------------------------------------------------------------------
(* The router serving concurrent requests *)

Init ==
    /\ config \in Configs
    /\ se_tools = << >>
    /\ all_tools = << >>
    /\ loaded_upstreams = [u \in DOMAIN config |-> NoConn]
    /\ upstreams = [u \in DOMAIN config |-> NoConn]
    /\ conns = << >>
    /\ tasks = EmptyBag
    /\ event = NoEvent
    /\ frame = NoFrame

Running == BagToSet(tasks)

\* get_loaded_upstreams: the keys of _loaded_upstreams
get_loaded_upstreams == { u \in Upstreams : loaded_upstreams[u] # NoConn }

Next ==
    \/ \E name \in RequestNames : load_upstream_unknown(name) /\ UNCHANGED frame
    \/ \E name \in RequestNames : load_upstream_already(name) /\ UNCHANGED frame
    \/ \E name \in RequestNames : load_upstream_connect(name) /\ UNCHANGED frame
    \/ \E t \in Running, outcome \in ConnectOutcomes : load_upstream_connected(t, outcome) /\ UNCHANGED frame
    \/ \E t \in Running : load_upstream_fetch_failed(t) /\ UNCHANGED frame
    \/ \E t \in Running, response \in ToolLists, embed_ok \in BOOLEAN :
          load_upstream_fetched(t, response, embed_ok) /\ UNCHANGED frame
    \/ \E t \in Running, outcome \in DisconnectOutcomes : load_upstream_cleaned(t, outcome) /\ UNCHANGED frame
    \/ \E name \in RequestNames : unload_upstream_unknown(name) /\ UNCHANGED frame
    \/ \E name \in RequestNames : unload_upstream_not_loaded(name) /\ UNCHANGED frame
    \/ \E name \in RequestNames : unload_upstream_remove_failed(name) /\ UNCHANGED frame
    \/ \E name \in RequestNames : unload_upstream_remove(name) /\ UNCHANGED frame
    \/ \E t \in Running, outcome \in DisconnectOutcomes :
          unload_upstream_disconnected(t, outcome) /\ UNCHANGED frame
    \/ search_tools /\ UNCHANGED frame
    \/ \E name \in CallNames : proxy_call_tool_rejected(name) /\ UNCHANGED frame
    \/ \E name \in CallNames : proxy_call_tool_forward(name) /\ UNCHANGED frame
    \/ \E t \in Running, outcome \in CallOutcomes : proxy_call_tool_done(t, outcome) /\ UNCHANGED frame

Spec == Init /\ [][Next]_vars

-----------------------------------------------------------------------------
(* The router serving one request at a time: a request is received only  *)
(* when the previous one has returned                                     *)

NextSeq ==
    \/ InFlight = 0 /\ \E name \in RequestNames : load_upstream_unknown(name) /\ UNCHANGED frame
    \/ InFlight = 0 /\ \E name \in RequestNames : load_upstream_already(name) /\ UNCHANGED frame
    \/ InFlight = 0 /\ \E name \in RequestNames : load_upstream_connect(name) /\ UNCHANGED frame
    \/ InFlight = 0 /\ \E name \in RequestNames : unload_upstream_unknown(name) /\ UNCHANGED frame
    \/ InFlight = 0 /\ \E name \in RequestNames : unload_upstream_not_loaded(name) /\ UNCHANGED frame
    \/ InFlight = 0 /\ \E name \in RequestNames : unload_upstream_remove_failed(name) /\ UNCHANGED frame
    \/ InFlight = 0 /\ \E name \in RequestNames : unload_upstream_remove(name) /\ UNCHANGED frame
    \/ InFlight = 0 /\ search_tools /\ UNCHANGED frame
    \/ InFlight = 0 /\ \E name \in CallNames : proxy_call_tool_rejected(name) /\ UNCHANGED frame
    \/ InFlight = 0 /\ \E name \in CallNames : proxy_call_tool_forward(name) /\ UNCHANGED frame
    \/ \E t \in Running, outcome \in ConnectOutcomes : load_upstream_connected(t, outcome) /\ UNCHANGED frame
    \/ \E t \in Running : load_upstream_fetch_failed(t) /\ UNCHANGED frame
    \/ \E t \in Running, response \in ToolLists, embed_ok \in BOOLEAN :
          load_upstream_fetched(t, response, embed_ok) /\ UNCHANGED frame
    \/ \E t \in Running, outcome \in DisconnectOutcomes : load_upstream_cleaned(t, outcome) /\ UNCHANGED frame
    \/ \E t \in Running, outcome \in DisconnectOutcomes :
          unload_upstream_disconnected(t, outcome) /\ UNCHANGED frame
    \/ \E t \in Running, outcome \in CallOutcomes : proxy_call_tool_done(t, outcome) /\ UNCHANGED frame

SpecSeq == Init /\ [][NextSeq]_vars

-----------------------------------------------------------------------------
(* The search engine alone, called with arbitrary batches *)

\* tools as a caller of the engine may hand them over, with or without an
\* embedding
EngineTools ==
    { [ToolMetadata(u, original, NoConn) EXCEPT !.embedding = e] :
        u \in Upstreams, original \in { <<"x">> }, e \in BOOLEAN }

\* the batches handed to add_tools and set_tools
Batches ==
    { << >> } \cup { <<t1>> : t1 \in EngineTools }
              \cup { <<t1, t2>> : t1 \in EngineTools, t2 \in EngineTools }

\* the namespaces handed to remove_tools
Namespaces == { << >>, <<"a">>, <<"b">>, <<"c">> }

\* add_tools(batch); the event is the call and whether it raised
engine_add_tools(batch) ==
    /\ se_tools' = add_tools(se_tools, batch)
    /\ event' = [kind |-> "add_tools", batch |-> batch,
                 raised |-> add_tools_raises(se_tools, batch)]
    /\ UNCHANGED <<config, all_tools, loaded_upstreams, upstreams, conns, tasks>>

\* set_tools(batch)
engine_set_tools(batch) ==
    /\ se_tools' = set_tools(se_tools, batch)
    /\ event' = [kind |-> "set_tools", batch |-> batch,
                 raised |-> set_tools_raises(batch)]
    /\ UNCHANGED <<config, all_tools, loaded_upstreams, upstreams, conns, tasks>>

\* remove_tools(namespace)
engine_remove_tools(namespace) ==
    /\ se_tools' = remove_tools(se_tools, namespace)
    /\ event' = [kind |-> "remove_tools", upstream |-> None, namespace |-> namespace]
    /\ UNCHANGED <<config, all_tools, loaded_upstreams, upstreams, conns, tasks>>

NextEngine ==
    \/ \E batch \in Batches : engine_add_tools(batch) /\ UNCHANGED frame
    \/ \E batch \in Batches : engine_set_tools(batch) /\ UNCHANGED frame
    \/ \E namespace \in Namespaces : engine_remove_tools(namespace) /\ UNCHANGED frame

SpecEngine == Init /\ [][NextEngine]_vars

-----------------------------------------------------------------------------
(* UpstreamConnection objects used directly, one call at a time *)

\* a connection object with the history of its calls: ready says that the
\* last connect() returned normally and no disconnect() has returned since,
\* ended says that a connect() has raised or a disconnect() has returned
Tracked(u) == UpstreamConnection(u) @@ [ready |-> FALSE, ended |-> FALSE]

\* what a call on connection c did: how it ended and whether a request was
\* sent to the upstream
ConnEvent(op, c, result, requested) ==
    [kind |-> "conn", op |-> op, conn |-> c, result |-> result,
     requested |-> requested]

\* UpstreamConnection(config)
conn_construct(u) ==
    /\ Len(conns) < MaxConns
    /\ conns' = Append(conns, Tracked(u))
    /\ event' = ConnEvent("construct", Len(conns) + 1, "returned", FALSE)
    /\ UNCHANGED <<config, se_tools, all_tools, loaded_upstreams, upstreams, tasks>>

\* connect(): no check of the state the object is in
conn_connect(c, outcome) ==
    /\ conns' = [conns EXCEPT ![c] =
                    [connect(@, outcome) EXCEPT !.ready = (outcome = "ok"),
                                                !.ended = @ \/ outcome # "ok"]]
    /\ event' = ConnEvent("connect", c,
                          IF outcome = "ok" THEN "returned" ELSE "raised", FALSE)
    /\ UNCHANGED <<config, se_tools, all_tools, loaded_upstreams, upstreams, tasks>>

\* how the request of fetch_tools can end
FetchOutcomes == {"ok", "error"}

\* fetch_tools(): refused when _session is None, else tools/list is sent
conn_fetch_tools(c, response, outcome) ==
    /\ IF ~conns[c].session
       THEN /\ event' = ConnEvent("fetch_tools", c, "not_connected", FALSE)
            /\ UNCHANGED conns
       ELSE /\ event' = ConnEvent("fetch_tools", c, outcome, TRUE)
            /\ conns' = [conns EXCEPT ![c].ntools =
                            IF outcome = "ok" THEN Len(response) ELSE @]
    /\ UNCHANGED <<config, se_tools, all_tools, loaded_upstreams, upstreams, tasks>>

\* how the request of call_tool can end: a result, a result with isError, an
\* error answer of the upstream, a failure of the transport
ConnCallOutcomes == {"result", "is_error", "mcp_error", "io_failure"}

\* call_tool(): refused when _session is None, else tools/call is sent; an
\* exception is wrapped and raised again, no attribute is changed
conn_call_tool(c, outcome) ==
    /\ IF ~conns[c].session
       THEN event' = ConnEvent("call_tool", c, "not_connected", FALSE)
       ELSE event' = ConnEvent("call_tool", c, outcome, TRUE)
    /\ UNCHANGED <<config, se_tools, all_tools, loaded_upstreams, upstreams,
                   conns, tasks>>

\* disconnect(): returns whatever __aexit__ did
conn_disconnect(c, outcome) ==
    /\ conns' = [conns EXCEPT ![c] =
                    [disconnect(@, outcome) EXCEPT !.ready = FALSE,
                                                   !.ended = TRUE,
                                                   !.disc_called = TRUE]]
    /\ event' = ConnEvent("disconnect", c, "returned", FALSE)
    /\ UNCHANGED <<config, se_tools, all_tools, loaded_upstreams, upstreams, tasks>>

NextConn ==
    \/ \E u \in Upstreams : conn_construct(u) /\ UNCHANGED frame
    \/ \E c \in DOMAIN conns, outcome \in ConnectOutcomesAll :
            conn_connect(c, outcome) /\ UNCHANGED frame
    \/ \E c \in DOMAIN conns, response \in ToolLists, outcome \in FetchOutcomes :
            conn_fetch_tools(c, response, outcome) /\ UNCHANGED frame
    \/ \E c \in DOMAIN conns, outcome \in ConnCallOutcomes :
            conn_call_tool(c, outcome) /\ UNCHANGED frame
    \/ \E c \in DOMAIN conns, outcome \in DisconnectOutcomesAll :
            conn_disconnect(c, outcome) /\ UNCHANGED frame

SpecConn == Init /\ [][NextConn]_vars

-----------------------------------------------------------------------------
(* ToolDiscoveryManager.load_multiple_upstreams *)

\* LoadingConfig.max_concurrent_upstreams as configured here (any positive
\* integer is accepted, the default is 10)
max_concurrent_upstreams == 1

\* the lists of names a client passes
NameLists ==
    { << >>, << <<"a">> >>, << <<"z">> >>, << <<"a">>, <<"b">> >>,
      << <<"K">>, <<"a">> >>, << <<"z">>, <<"b">> >>, << <<"b">>, <<"z">> >> }

\* the first loop: the canonical names of the names that resolve
RECURSIVE ResolvedNames(_)
ResolvedNames(names) ==
    IF names = << >> THEN << >>
    ELSE (IF resolve(Head(names)) = None THEN << >> ELSE << resolve(Head(names)) >>)
         \o ResolvedNames(Tail(names))

\* the first loop: a failed entry for every name that does not resolve
RECURSIVE ResolveFailures(_)
ResolveFailures(names) ==
    IF names = << >> THEN << >>
    ELSE (IF resolve(Head(names)) = None
          THEN << [name |-> Head(names), error |-> "unknown"] >> ELSE << >>)
         \o ResolveFailures(Tail(names))

\* the loop over zip(resolved_names, results): the loaded list
RECURSIVE LoadedOf(_, _)
LoadedOf(resolved_names, results) ==
    IF resolved_names = << >> THEN << >>
    ELSE (IF Head(results).success THEN << Head(resolved_names) >> ELSE << >>)
         \o LoadedOf(Tail(resolved_names), Tail(results))

\* the loop over zip(resolved_names, results): the entries appended to failed
RECURSIVE FailedOf(_, _)
FailedOf(resolved_names, results) ==
    IF resolved_names = << >> THEN << >>
    ELSE (IF Head(results).success THEN << >>
          ELSE << [name |-> Head(resolved_names), error |-> Head(results).error] >>)
         \o FailedOf(Tail(resolved_names), Tail(results))

\* no load_multiple_upstreams is running: none was called or the last one
\* has returned
NoCallRunning == frame = NoFrame \/ (frame.op = "load_multiple" /\ frame.pc = "done")

\* the call: the names are resolved, then the load_upstream coroutines are
\* handed to asyncio.gather; without a resolved name the call returns at once
load_multiple_upstreams(names) ==
    /\ NoCallRunning /\ InFlight = 0
    /\ frame' = [op |-> "load_multiple",
                 pc |-> IF ResolvedNames(names) = << >> THEN "done" ELSE "gather",
                 names |-> names,
                 resolved_names |-> ResolvedNames(names),
                 child |-> << >>, results |-> << >>,
                 loaded |-> << >>, failed |-> ResolveFailures(names)]
    /\ event' = [kind |-> "load_multiple", names |-> names]
    /\ UNCHANGED <<config, se_tools, all_tools, loaded_upstreams, upstreams, conns, tasks>>

\* gather has not yet started every coroutine; they start in list order
GatherStarting ==
    /\ frame.op = "load_multiple" /\ frame.pc = "gather"
    /\ Len(frame.results) < Len(frame.resolved_names)

\* the name the next coroutine of gather is called with
NextChildName == frame.resolved_names[Len(frame.results) + 1]

\* the frame after the next coroutine ran to its first await (e is NoEvent,
\* its connection is the newest) or to its return (e is its result)
ChildStarted(e, c) ==
    [frame EXCEPT !.results = Append(@, e),
                  !.child = Append(@, IF e.kind = "load" THEN NoConn ELSE c)]

\* every coroutine of gather has started and some have not returned
Gathering ==
    /\ frame.op = "load_multiple" /\ frame.pc = "gather"
    /\ Len(frame.results) = Len(frame.resolved_names)

\* the frame after a coroutine of gather took a step: when the step was
\* its return (e is the result) gather stores the result at its position
ChildStepped(e) ==
    IF e.kind = "load"
    THEN [frame EXCEPT !.results =
             [i \in 1..Len(frame.results) |->
                 IF frame.child[i] = e.conn THEN e ELSE frame.results[i]]]
    ELSE frame

\* gather returned: the results are split into loaded and failed and the
\* summary is returned
load_multiple_upstreams_return ==
    /\ Gathering /\ InFlight = 0
    /\ \A i \in 1..Len(frame.results) : frame.results[i].kind = "load"
    /\ frame' = [frame EXCEPT !.pc = "done",
                    !.loaded = LoadedOf(frame.resolved_names, frame.results),
                    !.failed = @ \o FailedOf(frame.resolved_names, frame.results)]
    /\ event' = [kind |-> "load_multiple_return"]
    /\ UNCHANGED <<config, se_tools, all_tools, loaded_upstreams, upstreams, conns, tasks>>

NextMulti ==
    \/ \E names \in NameLists : load_multiple_upstreams(names)
    \/ GatherStarting /\ load_upstream_already(NextChildName)
            /\ frame' = ChildStarted(event', Len(conns'))
    \/ GatherStarting /\ load_upstream_connect(NextChildName)
            /\ frame' = ChildStarted(event', Len(conns'))
    \/ Gathering /\ \E t \in Running, outcome \in ConnectOutcomes :
            load_upstream_connected(t, outcome) /\ frame' = ChildStepped(event')
    \/ Gathering /\ \E t \in Running :
            load_upstream_fetch_failed(t) /\ frame' = ChildStepped(event')
    \/ Gathering /\ \E t \in Running, response \in ToolLists, embed_ok \in BOOLEAN :
            load_upstream_fetched(t, response, embed_ok) /\ frame' = ChildStepped(event')
    \/ Gathering /\ \E t \in Running, outcome \in DisconnectOutcomes :
            load_upstream_cleaned(t, outcome) /\ frame' = ChildStepped(event')
    \/ load_multiple_upstreams_return

SpecMulti == Init /\ [][NextMulti]_vars

-----------------------------------------------------------------------------
(* ToolDiscoveryManager.initialize *)

\* the name "all"
All == <<"a", "l", "l">>

\* the values of loading.auto_load
AutoLoads ==
    { << All >>, << >>, << <<"a">> >>, << <<"K">>, <<"b">> >>,
      << <<"z">>, <<"a">> >>, << <<"a">>, <<"a">> >> }

\* auto_load after the special case: ["all"] stands for the keys of mcp_servers
ExpandAutoLoad(auto_load) == IF auto_load = << All >> THEN ServerOrder ELSE auto_load

\* initialize() is called on the new manager: an empty auto_load returns at
\* once, else the loop over the names begins
initialize(auto_load) ==
    /\ frame = NoFrame /\ InFlight = 0
    /\ frame' = [op |-> "initialize",
                 pc |-> IF ExpandAutoLoad(auto_load) = << >> THEN "done" ELSE "loop",
                 configured |-> auto_load,
                 auto_load |-> ExpandAutoLoad(auto_load),
                 attempted |-> 0, results |-> << >>]
    /\ event' = [kind |-> "initialize"]
    /\ UNCHANGED <<config, se_tools, all_tools, loaded_upstreams, upstreams, conns, tasks>>

\* the loop is about to call load_upstream for its next name
InitializeNext ==
    /\ frame.op = "initialize" /\ frame.pc = "loop"
    /\ frame.attempted < Len(frame.auto_load)

\* the name of this iteration
UpstreamName == frame.auto_load[frame.attempted + 1]

\* a variant of InitializeCollected that leaves the loop at the first failure
InitializeCollectedBreaks(f, e) ==
    [f EXCEPT !.results = Append(@, e),
              !.pc = IF e.success THEN "loop" ELSE "done"]

\* the frame after load_upstream returned e: counted as success or
\* appended to failed_loads, and the loop goes on
InitializeCollected(f, e) ==
    [f EXCEPT !.results = Append(@, e), !.pc = "loop"]

\* the frame after load_upstream was called and ran to its first await
\* (e is NoEvent) or to its return
InitializeCalled(e) ==
    IF e.kind = "load"
    THEN InitializeCollected([frame EXCEPT !.attempted = @ + 1], e)
    ELSE [frame EXCEPT !.attempted = @ + 1, !.pc = "await"]

\* initialize is suspended in `await self.load_upstream(upstream_name)`
InitializeAwaiting == frame.op = "initialize" /\ frame.pc = "await"

\* the frame after the awaited load_upstream took a step
InitializeStepped(e) ==
    IF e.kind = "load" THEN InitializeCollected(frame, e) ELSE frame

\* the loop is over: the summary is logged and initialize returns
initialize_return ==
    /\ frame.op = "initialize" /\ frame.pc = "loop"
    /\ frame.attempted = Len(frame.auto_load)
    /\ frame' = [frame EXCEPT !.pc = "done"]
    /\ event' = [kind |-> "initialize_return"]
    /\ UNCHANGED <<config, se_tools, all_tools, loaded_upstreams, upstreams, conns, tasks>>

NextInit ==
    \/ \E auto_load \in AutoLoads : initialize(auto_load)
    \/ InitializeNext /\ load_upstream_unknown(UpstreamName)
            /\ frame' = InitializeCalled(event')
    \/ InitializeNext /\ load_upstream_already(UpstreamName)
            /\ frame' = InitializeCalled(event')
    \/ InitializeNext /\ load_upstream_connect(UpstreamName)
            /\ frame' = InitializeCalled(event')
    \/ InitializeAwaiting /\ \E t \in Running, outcome \in ConnectOutcomes :
            load_upstream_connected(t, outcome) /\ frame' = InitializeStepped(event')
    \/ InitializeAwaiting /\ \E t \in Running :
            load_upstream_fetch_failed(t) /\ frame' = InitializeStepped(event')
    \/ InitializeAwaiting /\ \E t \in Running, response \in ToolLists, embed_ok \in BOOLEAN :
            load_upstream_fetched(t, response, embed_ok) /\ frame' = InitializeStepped(event')
    \/ InitializeAwaiting /\ \E t \in Running, outcome \in DisconnectOutcomes :
            load_upstream_cleaned(t, outcome) /\ frame' = InitializeStepped(event')
    \/ initialize_return

SpecInit == Init /\ [][NextInit]_vars

-----------------------------------------------------------------------------
(* SemanticRouterServer.call_tool, one request at a time *)

\* the names of the three meta-tools
SearchTools == <<"s", "e", "a", "r", "c", "h", "_", "t", "o", "o", "l", "s">>
LoadUpstream == <<"l", "o", "a", "d", "_", "u", "p", "s", "t", "r", "e", "a", "m">>
UnloadUpstream ==
    <<"u", "n", "l", "o", "a", "d", "_", "u", "p", "s", "t", "r", "e", "a", "m">>
MetaNames == { SearchTools, LoadUpstream, UnloadUpstream }

\* the JSON-RPC codes of ToolNotFoundError, ValidationError and UpstreamError
ERROR_CODE_METHOD_NOT_FOUND == 0 - 32601
ERROR_CODE_INVALID_PARAMS == 0 - 32602
ERROR_CODE_SERVER_ERROR == 0 - 32000

\* the arguments of a call: the set of (parameter, Python type of its value)
Arguments ==
    { {}, { <<"q", "int">> }, { <<"q", "bool">> }, { <<"q", "str">> },
      { <<"q", "int">>, <<"r", "int">> }, { <<"q", "int">>, <<"s", "str">> } }

\* the inputSchema an upstream declares for a tool, as JSONSchema.from_dict
\* keeps it: x takes a required integer q and a boolean r; y declares a
\* required q and no properties
input_schema(tool) ==
    IF tool.original_name = <<"x">>
    THEN [has_properties |-> TRUE,
          properties |-> { <<"q", "integer">>, <<"r", "boolean">> },
          required |-> { "q" }]
    ELSE [has_properties |-> FALSE, properties |-> {}, required |-> { "q" }]

\* _validate_type: isinstance(value, type_mapping[expected_type]); a bool is
\* an instance of int, an unknown expected type accepts every value
validate_type(value_type, expected_type) ==
    CASE expected_type = "string" -> value_type = "str"
      [] expected_type = "integer" -> value_type \in {"int", "bool"}
      [] expected_type = "number" -> value_type \in {"int", "float", "bool"}
      [] expected_type = "boolean" -> value_type = "bool"
      [] OTHER -> TRUE

\* validate_tool_parameters raises ValidationError
validate_tool_parameters_raises(params, schema) ==
    /\ schema.has_properties
    /\ \/ \E required_field \in schema.required :
              ~\E p \in params : p[1] = required_field
       \/ \E p \in params :
              \/ ~\E prop \in schema.properties : prop[1] = p[1]
              \/ \E prop \in schema.properties :
                    prop[1] = p[1] /\ ~validate_type(p[2], prop[2])

\* get_tool_by_name finds a tool
ToolKnown(name) == \E i \in 1..Len(all_tools) : all_tools[i].name = name

\* get_tool_by_name: the first tool of all_tools with the name
get_tool_by_name(name) ==
    all_tools[CHOOSE i \in 1..Len(all_tools) :
                 /\ all_tools[i].name = name
                 /\ \A j \in 1..(i - 1) : all_tools[j].name # name]

\* the content items of the results an upstream returns
TextItem == [type |-> "text", text |-> "t", data |-> None, mimeType |-> None,
             resource |-> None]
ImageItem == [type |-> "image", text |-> None, data |-> "d", mimeType |-> "m",
              resource |-> None]
ResourceItem == [type |-> "resource", text |-> None, data |-> None,
                 mimeType |-> None, resource |-> "r"]

\* the results an upstream returns to tools/call
UpstreamResults ==
    { [content |-> c, isError |-> e] :
        c \in { << >>, <<TextItem, ImageItem>>, <<ResourceItem>> },
        e \in BOOLEAN }

\* UpstreamConnection.call_tool and the proxy: every item becomes a
\* ContentItem of type, text, data and mimeType; the dict built from the
\* upstream's item has no key uri, so uri is None
ContentItem(item) ==
    [type |-> item.type, text |-> item.text, data |-> item.data,
     mime_type |-> item.mimeType, uri |-> None]

\* the ToolCallResult the proxy returns
ToolCallResult(result) ==
    [content |-> [i \in 1..Len(result.content) |-> ContentItem(result.content[i])],
     is_error |-> result.isError]

\* the handler was called with name and arguments and has not returned
ServerCall(name, arguments) ==
    [op |-> "server", state |-> "called", name |-> name, arguments |-> arguments]

\* the handler awaits the proxy, which awaits the upstream call it sent
ServerForwarded(name, arguments, e) ==
    [op |-> "server", state |-> "forwarded", name |-> name, arguments |-> arguments,
     sent |-> [upstream |-> e.upstream, conn |-> e.conn, tool_name |-> e.tool_name,
               arguments |-> arguments]]

\* the handler raised a router error
ServerError(name, arguments, code, error) ==
    [op |-> "server", state |-> "raised", name |-> name, arguments |-> arguments,
     code |-> code, error |-> error]

\* a variant of ServerReturned that reports a timeout as an invalid request
ServerReturnedInvalid(f, outcome, result) ==
    ServerError(f.name, f.arguments, ERROR_CODE_INVALID_PARAMS, outcome)

\* the handler after the proxy call ended: result.content is returned (the
\* is_error of the ToolCallResult is only logged), an exception of the
\* proxy is wrapped in UpstreamError with its message (the one of a timeout
\* names the tool and the upstream), a cancellation goes through
ServerReturned(f, outcome, result) ==
    CASE outcome = "result" ->
            [op |-> "server", state |-> "returned", name |-> f.name,
             arguments |-> f.arguments, sent |-> f.sent, upstream_result |-> result,
             content |-> ToolCallResult(result).content]
      [] outcome = "timeout" ->
            ServerError(f.name, f.arguments, ERROR_CODE_SERVER_ERROR, "timed out")
                @@ [sent |-> f.sent,
                    message |-> [tool |-> f.sent.tool_name, upstream |-> f.sent.upstream]]
      [] outcome = "error" ->
            ServerError(f.name, f.arguments, ERROR_CODE_SERVER_ERROR, "upstream_error")
                @@ [sent |-> f.sent]
      [] OTHER ->
            [op |-> "server", state |-> "cancelled", name |-> f.name,
             arguments |-> f.arguments, sent |-> f.sent]

\* no request is being handled
ServerIdle == InFlight = 0

\* a meta-tool name: the local handler runs, nothing goes to the proxy
server_call_tool_meta(name) ==
    /\ name \in MetaNames
    /\ frame' = ServerCall(name, {})

\* get_tool_by_name returns None: ToolNotFoundError
server_call_tool_not_found(name, arguments) ==
    /\ ServerIdle
    /\ name \notin MetaNames /\ ~ToolKnown(name)
    /\ frame' = ServerError(name, arguments, ERROR_CODE_METHOD_NOT_FOUND, "not_found")
    /\ event' = NoEvent
    /\ UNCHANGED <<config, se_tools, all_tools, loaded_upstreams, upstreams, conns, tasks>>

\* validate_tool_parameters raises ValidationError
server_call_tool_invalid(name, arguments) ==
    /\ ServerIdle
    /\ name \notin MetaNames /\ ToolKnown(name)
    /\ validate_tool_parameters_raises(arguments, input_schema(get_tool_by_name(name)))
    /\ frame' = ServerError(name, arguments, ERROR_CODE_INVALID_PARAMS, "invalid")
    /\ event' = NoEvent
    /\ UNCHANGED <<config, se_tools, all_tools, loaded_upstreams, upstreams, conns, tasks>>

\* the tool is known and the arguments pass: proxy.call_tool is awaited
ServerForwards(name, arguments) ==
    /\ ServerIdle
    /\ name \notin MetaNames /\ ToolKnown(name)
    /\ ~validate_tool_parameters_raises(arguments, input_schema(get_tool_by_name(name)))

\* the names clients pass to the server's call_tool, besides the meta-tools
ServerNames ==
    { <<"a", Dot, "x">>, <<"b", Dot, "x">>, <<"c", Dot, "x">>, <<"z", Dot, "x">>,
      <<"a", Dot, "y">> }

\* how the awaited proxy call can end for the handler
ServerCallOutcomes == CallOutcomes \cup { "cancelled" }

NextServer ==
    \/ ServerIdle /\ search_tools /\ server_call_tool_meta(SearchTools)
    \/ ServerIdle /\ \E name \in RequestNames : load_upstream_unknown(name)
            /\ server_call_tool_meta(LoadUpstream)
    \/ ServerIdle /\ \E name \in RequestNames : load_upstream_already(name)
            /\ server_call_tool_meta(LoadUpstream)
    \/ ServerIdle /\ \E name \in RequestNames : load_upstream_connect(name)
            /\ server_call_tool_meta(LoadUpstream)
    \/ \E t \in Running, outcome \in ConnectOutcomes :
            load_upstream_connected(t, outcome) /\ UNCHANGED frame
    \/ \E t \in Running : load_upstream_fetch_failed(t) /\ UNCHANGED frame
    \/ \E t \in Running, response \in ToolLists, embed_ok \in BOOLEAN :
            load_upstream_fetched(t, response, embed_ok) /\ UNCHANGED frame
    \/ \E t \in Running, outcome \in DisconnectOutcomes :
            load_upstream_cleaned(t, outcome) /\ UNCHANGED frame
    \/ ServerIdle /\ \E name \in RequestNames : unload_upstream_remove(name)
            /\ server_call_tool_meta(UnloadUpstream)
    \/ \E t \in Running, outcome \in DisconnectOutcomes :
            unload_upstream_disconnected(t, outcome) /\ UNCHANGED frame
    \/ \E name \in ServerNames, arguments \in Arguments :
            server_call_tool_not_found(name, arguments)
    \/ \E name \in ServerNames, arguments \in Arguments :
            server_call_tool_invalid(name, arguments)
    \/ \E name \in ServerNames, arguments \in Arguments :
            /\ ServerForwards(name, arguments)
            /\ proxy_call_tool_rejected(name)
            /\ frame' = ServerError(name, arguments, ERROR_CODE_SERVER_ERROR, event'.error)
    \/ \E name \in ServerNames, arguments \in Arguments :
            /\ ServerForwards(name, arguments)
            /\ proxy_call_tool_forward(name)
            /\ frame' = ServerForwarded(name, arguments, event')
    \/ \E t \in Running, outcome \in ServerCallOutcomes, result \in UpstreamResults :
            /\ outcome # "result" => result = [content |-> << >>, isError |-> FALSE]
            /\ proxy_call_tool_done(t, outcome)
            /\ frame' = ServerReturned(frame, outcome, result)

SpecServer == Init /\ [][NextServer]_vars

-----------------------------------------------------------------------------
(* AliasResolver.resolve and is_loaded under configurations with clashing names *)

\* aliases of a and of b: an alias that is the other upstream's id, one that
\* is the own id in another case, one declared by both in different cases
AliasChoices ==
    { << << <<"k">> >>, << >> >>,
      << << >>, << <<"a">> >> >>,
      << << <<"A">> >>, << >> >>,
      << << <<"K">> >>, << <<"k">> >> >>,
      << << <<"b">>, <<"k">> >>, << <<"B">> >> >> }

AliasConfigs ==
    { [u \in { <<"a">>, <<"b">> } |->
          [semantic_prefix |-> NoPrefix,
           aliases |-> IF u = <<"a">> THEN c[1] ELSE c[2]]] : c \in AliasChoices }

\* the names handed to resolve and is_loaded
AliasNames ==
    { <<"a">>, <<"A">>, <<"b">>, <<"B">>, <<"k">>, <<"K">>, <<"z">>, << >> }

InitAlias ==
    /\ config \in AliasConfigs
    /\ se_tools = << >>
    /\ all_tools = << >>
    /\ loaded_upstreams = [u \in DOMAIN config |-> NoConn]
    /\ upstreams = [u \in DOMAIN config |-> NoConn]
    /\ conns = << >>
    /\ tasks = EmptyBag
    /\ event = NoEvent
    /\ frame = NoFrame

\* a variant of is_loaded that knows canonical ids only
is_loaded_ids_only(name) ==
    IF name \in Upstreams THEN loaded_upstreams[name] # NoConn ELSE FALSE

\* is_loaded: the ValueError of resolve is caught and gives False
is_loaded(name) ==
    LET canonical_name == resolve(name)
    IN  IF canonical_name = None THEN FALSE
        ELSE loaded_upstreams[canonical_name] # NoConn

\* a call of AliasResolver.resolve
resolve_called(name) ==
    /\ event' = [kind |-> "resolve", name |-> name, result |-> resolve(name)]
    /\ UNCHANGED <<config, se_tools, all_tools, loaded_upstreams, upstreams, conns, tasks>>

\* a call of is_loaded
is_loaded_called(name) ==
    /\ event' = [kind |-> "is_loaded", name |-> name, raised |-> FALSE,
                 result |-> is_loaded(name)]
    /\ UNCHANGED <<config, se_tools, all_tools, loaded_upstreams, upstreams, conns, tasks>>

NextAlias ==
    \/ \E name \in AliasNames : resolve_called(name) /\ UNCHANGED frame
    \/ \E name \in AliasNames : is_loaded_called(name) /\ UNCHANGED frame
    \/ InFlight = 0 /\ \E name \in AliasNames : load_upstream_unknown(name) /\ UNCHANGED frame
    \/ InFlight = 0 /\ \E name \in AliasNames : load_upstream_already(name) /\ UNCHANGED frame
    \/ InFlight = 0 /\ \E name \in AliasNames : load_upstream_connect(name) /\ UNCHANGED frame
    \/ \E t \in Running, outcome \in ConnectOutcomes :
          load_upstream_connected(t, outcome) /\ UNCHANGED frame
    \/ \E t \in Running : load_upstream_fetch_failed(t) /\ UNCHANGED frame
    \/ \E t \in Running, response \in ToolLists, embed_ok \in BOOLEAN :
          load_upstream_fetched(t, response, embed_ok) /\ UNCHANGED frame
    \/ \E t \in Running, outcome \in DisconnectOutcomes :
          load_upstream_cleaned(t, outcome) /\ UNCHANGED frame
    \/ InFlight = 0 /\ \E name \in AliasNames : unload_upstream_remove(name) /\ UNCHANGED frame
    \/ \E t \in Running, outcome \in DisconnectOutcomes :
          unload_upstream_disconnected(t, outcome) /\ UNCHANGED frame

SpecAlias == InitAlias /\ [][NextAlias]_vars

-----------------------------------------------------------------------------
(* ToolDiscoveryManager.shutdown and the interrupt handling of main *)

\* the keys of self.upstreams
Registered == { u \in Upstreams : upstreams[u] # NoConn }

\* the end of shutdown(): self.upstreams.clear() and self.all_tools.clear();
\* _loaded_upstreams and the search engine are not touched
ShutdownCleared ==
    /\ upstreams' = [u \in Upstreams |-> NoConn]
    /\ all_tools' = << >>
    /\ event' = [kind |-> "shutdown"]
    /\ UNCHANGED loaded_upstreams

\* shutdown() is called: disconnect() of the first registered connection is
\* awaited; with nothing registered the loop is empty
shutdown ==
    /\ InFlight = 0
    /\ IF Registered = {}
       THEN /\ ShutdownCleared
            /\ frame' = [op |-> "shutdown", left |-> {}]
            /\ UNCHANGED <<conns, tasks>>
       ELSE \E u \in Registered :
               /\ conns' = [conns EXCEPT ![upstreams[u]].disc_called = TRUE]
               /\ tasks' = Suspend(Task("shutdown", "disconnect", u, upstreams[u], ""))
               /\ frame' = [op |-> "shutdown", left |-> Registered \ {u}]
               /\ event' = NoEvent
               /\ UNCHANGED <<upstreams, all_tools, loaded_upstreams>>
    /\ UNCHANGED <<config, se_tools>>

\* a disconnect() of the loop ended, its exception is logged: the next
\* connection is disconnected, or the loop is over and the dicts are cleared
shutdown_disconnected(t, outcome) ==
    /\ BagIn(t, tasks) /\ t.op = "shutdown"
    /\ IF frame.left = {}
       THEN /\ conns' = [conns EXCEPT ![t.conn] = disconnect(@, outcome)]
            /\ tasks' = Return(t)
            /\ ShutdownCleared
            /\ frame' = frame
       ELSE \E u \in frame.left :
               /\ conns' = [conns EXCEPT ![t.conn] = disconnect(@, outcome),
                                          ![upstreams[u]].disc_called = TRUE]
               /\ tasks' = Resume(t, Task("shutdown", "disconnect", u, upstreams[u], ""))
               /\ frame' = [frame EXCEPT !.left = @ \ {u}]
               /\ event' = NoEvent
               /\ UNCHANGED <<upstreams, all_tools, loaded_upstreams>>
    /\ UNCHANGED <<config, se_tools>>

\* the process runs
Alive == frame.op # "exit"

\* KeyboardInterrupt in main: asyncio.run cancels what is running, the
\* handler logs and calls sys.exit(0); shutdown_sequence is not called
interrupt ==
    /\ Alive
    /\ tasks' = EmptyBag
    /\ frame' = [op |-> "exit", status |-> 0]
    /\ event' = [kind |-> "exit"]
    /\ UNCHANGED <<config, se_tools, all_tools, loaded_upstreams, upstreams, conns>>

NextMain ==
    \/ Alive /\ InFlight = 0 /\ \E name \in RequestNames : load_upstream_already(name)
            /\ UNCHANGED frame
    \/ Alive /\ InFlight = 0 /\ \E name \in RequestNames : load_upstream_connect(name)
            /\ UNCHANGED frame
    \/ Alive /\ \E t \in Running, outcome \in ConnectOutcomes :
            load_upstream_connected(t, outcome) /\ UNCHANGED frame
    \/ Alive /\ \E t \in Running : load_upstream_fetch_failed(t) /\ UNCHANGED frame
    \/ Alive /\ \E t \in Running, response \in ToolLists, embed_ok \in BOOLEAN :
            load_upstream_fetched(t, response, embed_ok) /\ UNCHANGED frame
    \/ Alive /\ \E t \in Running, outcome \in DisconnectOutcomes :
            load_upstream_cleaned(t, outcome) /\ UNCHANGED frame
    \/ Alive /\ InFlight = 0 /\ \E name \in RequestNames : unload_upstream_not_loaded(name)
            /\ UNCHANGED frame
    \/ Alive /\ InFlight = 0 /\ \E name \in RequestNames : unload_upstream_remove(name)
            /\ UNCHANGED frame
    \/ Alive /\ \E t \in Running, outcome \in DisconnectOutcomes :
            unload_upstream_disconnected(t, outcome) /\ UNCHANGED frame
    \/ Alive /\ shutdown
    \/ Alive /\ \E t \in Running, outcome \in DisconnectOutcomes :
            shutdown_disconnected(t, outcome)
    \/ interrupt

SpecMain == Init /\ [][NextMain]_vars

-----------------------------------------------------------------------------
(* select_default_tool_subset, called with arbitrary tool lists *)

\* the characters of the names below in code point order
Alphabet ==
    <<"a", "b", "c", "d", "e", "f", "g", "h", "i", "j", "k", "l", "m", "n", "o",
      "p", "q", "r", "s", "t", "u", "v", "w", "x", "y", "z">>

CharRank(c) == CHOOSE i \in 1..Len(Alphabet) : Alphabet[i] = c

\* s < t for Python strings
RECURSIVE StrLess(_, _)
StrLess(s, t) ==
    IF t = << >> THEN FALSE
    ELSE IF s = << >> THEN TRUE
    ELSE IF s[1] = t[1] THEN StrLess(Tail(s), Tail(t))
    ELSE CharRank(s[1]) < CharRank(t[1])

\* sorted(tools_by_upstream.keys())
RECURSIVE SortedIds(_)
SortedIds(ids) ==
    IF ids = {} THEN << >>
    ELSE LET first == CHOOSE u \in ids : \A v \in ids \ {u} : StrLess(u, v)
         IN  <<first>> \o SortedIds(ids \ {first})

\* list.sort(key=lambda t: t.original_name): stable
RECURSIVE SortByOriginalName(_)
SortByOriginalName(tools) ==
    IF tools = << >> THEN << >>
    ELSE LET i == CHOOSE k \in 1..Len(tools) :
                     /\ \A j \in 1..Len(tools) :
                           ~StrLess(tools[j].original_name, tools[k].original_name)
                     /\ \A j \in 1..(k - 1) :
                           tools[j].original_name # tools[k].original_name
         IN  <<tools[i]>>
             \o SortByOriginalName(SubSeq(tools, 1, i - 1) \o SubSeq(tools, i + 1, Len(tools)))

\* tools_by_upstream[u] after the sort
ToolsByUpstream(tools, u) ==
    SortByOriginalName(SelectSeq(tools, LAMBDA tool : tool.upstream_id = u))

\* the first loop: upstream_tools[:tools_per_upstream] of every upstream
RECURSIVE FirstShares(_, _, _, _)
FirstShares(tools, upstream_ids, i, tools_per_upstream) ==
    IF i > Len(upstream_ids) THEN << >>
    ELSE LET upstream_tools == ToolsByUpstream(tools, upstream_ids[i])
         IN  SubSeq(upstream_tools, 1, Min(tools_per_upstream, Len(upstream_tools)))
             \o FirstShares(tools, upstream_ids, i + 1, tools_per_upstream)

\* one pass of the for loop inside the while loop
RECURSIVE RoundRobinPass(_, _, _, _, _)
RoundRobinPass(st, tools, upstream_ids, i, max_tools) ==
    IF i > Len(upstream_ids) \/ Len(st.default_tools) >= max_tools THEN st
    ELSE LET upstream_id == upstream_ids[i]
             upstream_tools == ToolsByUpstream(tools, upstream_id)
             taken == st.taken_counts[upstream_id]
         IN  IF taken < Len(upstream_tools)
             THEN RoundRobinPass(
                      [default_tools |-> Append(st.default_tools, upstream_tools[taken + 1]),
                       taken_counts |-> [st.taken_counts EXCEPT ![upstream_id] = taken + 1],
                       added_any |-> TRUE],
                      tools, upstream_ids, i + 1, max_tools)
             ELSE RoundRobinPass(st, tools, upstream_ids, i + 1, max_tools)

\* the while loop
RECURSIVE RoundRobin(_, _, _, _)
RoundRobin(st, tools, upstream_ids, max_tools) ==
    IF Len(st.default_tools) >= max_tools THEN st.default_tools
    ELSE LET after == RoundRobinPass([st EXCEPT !.added_any = FALSE],
                                     tools, upstream_ids, 1, max_tools)
         IN  IF after.added_any THEN RoundRobin(after, tools, upstream_ids, max_tools)
             ELSE after.default_tools

\* a variant of select_default_tool_subset that takes the first tools of
\* the list
select_default_tool_subset_first(tools, max_tools) ==
    SubSeq(tools, 1, Min(max_tools, Len(tools)))

select_default_tool_subset(tools, max_tools) ==
    IF tools = << >> THEN << >>
    ELSE LET upstream_ids == SortedIds({ tools[i].upstream_id : i \in 1..Len(tools) })
             num_upstreams == Len(upstream_ids)
             share == max_tools \div num_upstreams
             tools_per_upstream == IF share >= 1 THEN share ELSE 1
             first == FirstShares(tools, upstream_ids, 1, tools_per_upstream)
             default_tools ==
                 RoundRobin([default_tools |-> first,
                             taken_counts |-> [u \in { upstream_ids[i] : i \in 1..num_upstreams }
                                                 |-> tools_per_upstream],
                             added_any |-> FALSE],
                            tools, upstream_ids, max_tools)
         IN  SubSeq(default_tools, 1, Min(max_tools, Len(default_tools)))

\* a tool as the callers of the function hand it over
SubsetTool(u, original) ==
    [name |-> u \o <<Dot>> \o original, original_name |-> original,
     upstream_id |-> u, embedding |-> TRUE, conn |-> NoConn]

SubsetTools ==
    { SubsetTool(u, original) :
        u \in { <<"a">>, <<"b">>, <<"c">> }, original \in { <<"x">>, <<"y">> } }

\* fifteen tools of b followed by seven of a
ManyTools ==
    [i \in 1..22 |-> IF i <= 15 THEN SubsetTool(<<"b">>, <<Alphabet[27 - i]>>)
                     ELSE SubsetTool(<<"a">>, <<Alphabet[i]>>)]

\* the tool lists handed to the function: every list of up to four tools,
\* and one longer than the default limit
SubsetLists ==
    { << >>, ManyTools }
        \cup { <<t1>> : t1 \in SubsetTools }
        \cup { <<t1, t2>> : t1 \in SubsetTools, t2 \in SubsetTools }
        \cup { <<t1, t2, t3>> : t1 \in SubsetTools, t2 \in SubsetTools, t3 \in SubsetTools }
        \cup { <<t1, t2, t3, t4>> : t1 \in SubsetTools, t2 \in SubsetTools,
                                    t3 \in SubsetTools, t4 \in SubsetTools }

\* the default of max_tools
DefaultMaxTools == 20

\* the limits handed to the function
SubsetLimits == { 0, 1, 2, 3, 4, DefaultMaxTools }

\* before a call of select_default_tool_subset: the arguments are chosen
InitSubset ==
    /\ config \in Configs
    /\ se_tools = << >>
    /\ all_tools = << >>
    /\ loaded_upstreams = [u \in DOMAIN config |-> NoConn]
    /\ upstreams = [u \in DOMAIN config |-> NoConn]
    /\ conns = << >>
    /\ tasks = EmptyBag
    /\ event = NoEvent
    /\ \E tools \in SubsetLists, max_tools \in SubsetLimits :
          frame = [op |-> "subset", tools |-> tools, max_tools |-> max_tools]

\* the call of select_default_tool_subset
subset_called ==
    /\ frame.op = "subset"
    /\ event' = [kind |-> "subset", tools |-> frame.tools, max_tools |-> frame.max_tools,
                 result |-> select_default_tool_subset(frame.tools, frame.max_tools)]
    /\ UNCHANGED <<config, se_tools, all_tools, loaded_upstreams, upstreams, conns, tasks>>

NextSubset == subset_called /\ UNCHANGED frame

SpecSubset == InitSubset /\ [][NextSubset]_vars

-----------------------------------------------------------------------------
(* The list_tools handler of the server *)

\* a variant of get_default_tool_subset that reads the search catalog
get_default_tool_subset_catalog(max_tools) ==
    select_default_tool_subset(se_tools, max_tools)

\* ToolDiscoveryManager.get_default_tool_subset
get_default_tool_subset(max_tools) ==
    select_default_tool_subset(all_tools, max_tools)

\* _tool_metadata_to_mcp_tool: the Tool keeps the name, the description and
\* the schema; the upstream id is not part of it
tool_metadata_to_mcp_tool(tool) == [name |-> tool.name]

\* what list_tools returns in the current state
list_tools ==
    LET default_tools == get_default_tool_subset(DefaultMaxTools)
    IN  [i \in 1..Len(default_tools) |-> tool_metadata_to_mcp_tool(default_tools[i])]
        \o <<[name |-> SearchTools], [name |-> LoadUpstream], [name |-> UnloadUpstream]>>

-----------------------------------------------------------------------------
(* SemanticSearchEngine.search_tools, with the similarity scores *)

\* SearchResult(tool=tool, similarity=score) for tool, score in zip(...)
SearchResults(tools, similarities) ==
    [i \in 1..Len(tools) |-> [tool |-> tools[i], similarity |-> similarities[i]]]

\* a variant of sort_by_similarity that leaves the list as it is
sort_by_similarity_unsorted(results) == results

\* results.sort(key=lambda r: r.similarity, reverse=True): stable
RECURSIVE sort_by_similarity(_)
sort_by_similarity(results) ==
    IF results = << >> THEN << >>
    ELSE LET i == CHOOSE k \in 1..Len(results) :
                     /\ \A j \in 1..Len(results) :
                           results[j].similarity <= results[k].similarity
                     /\ \A j \in 1..(k - 1) :
                           results[j].similarity # results[k].similarity
         IN  <<results[i]>>
             \o sort_by_similarity(SubSeq(results, 1, i - 1)
                                     \o SubSeq(results, i + 1, Len(results)))

\* the catalogs searched: up to three tools of two upstreams, and one that
\* set_tools was given with the same tool twice
SearchCatalogs ==
    LET tools == <<SubsetTool(<<"a">>, <<"x">>), SubsetTool(<<"b">>, <<"x">>),
                   SubsetTool(<<"a">>, <<"y">>)>>
    IN  { SubSeq(tools, 1, n) : n \in 0..3 } \cup { <<tools[1], tools[1]>> }

\* the cosine similarities, as ranks of the values
Similarities == 0..2

\* the values of top_k
TopKs == 1..4

\* the queries: empty, whitespace only, and a text
Queries == { << >>, <<" ">>, <<"q">> }

\* `not query or not query.strip()`
query_is_empty(query) == \A i \in 1..Len(query) : query[i] = " "

\* an engine with a catalog, before a call of search_tools: the arguments
\* and the similarity of the query to every tool of the catalog are chosen
InitSearch ==
    /\ config \in Configs
    /\ se_tools \in SearchCatalogs
    /\ all_tools = << >>
    /\ loaded_upstreams = [u \in DOMAIN config |-> NoConn]
    /\ upstreams = [u \in DOMAIN config |-> NoConn]
    /\ conns = << >>
    /\ tasks = EmptyBag
    /\ event = NoEvent
    /\ \E query \in Queries, top_k \in TopKs,
          similarities \in [1..Len(se_tools) -> Similarities] :
          frame = [op |-> "engine_search", query |-> query, top_k |-> top_k,
                   similarities |-> similarities]

\* SemanticSearchEngine.search_tools
engine_search_tools ==
    /\ frame.op = "engine_search"
    /\ IF query_is_empty(frame.query)
       THEN event' = [kind |-> "engine_search", raised |-> "ValueError", results |-> << >>]
       ELSE IF se_tools = << >>
       THEN event' = [kind |-> "engine_search", raised |-> "RuntimeError", results |-> << >>]
       ELSE LET results == sort_by_similarity(SearchResults(se_tools, frame.similarities))
            IN  event' = [kind |-> "engine_search", raised |-> "",
                          results |-> SubSeq(results, 1, Min(frame.top_k, Len(results)))]
    /\ UNCHANGED <<config, se_tools, all_tools, loaded_upstreams, upstreams, conns, tasks>>

NextSearch == engine_search_tools /\ UNCHANGED frame

SpecSearch == InitSearch /\ [][NextSearch]_vars

-----------------------------------------------------------------------------
(* Properties *)

\* the catalog entries of upstream u, and those made by connection c
CatalogOf(u) == { i \in 1..Len(se_tools) : se_tools[i].upstream_id = u }
CatalogBy(c) == { i \in 1..Len(se_tools) : se_tools[i].conn = c }

\* the upstream a load result is about
Attempted(e) == IF e.conn = NoConn THEN e.upstream ELSE conns[e.conn].upstream_id

\* C1: whenever no call is in progress, the upstreams reported by
\* get_loaded_upstreams() are the upstream_ids of the catalog: an upstream
\* with a tool in the catalog is loaded, and a loaded upstream that
\* contributed tools has tools in the catalog.
C1_LoadedSetIsCatalogUpstreams ==
    InFlight = 0 =>
        \A u \in Upstreams :
            /\ CatalogOf(u) # {} => u \in get_loaded_upstreams
            /\ (u \in get_loaded_upstreams /\ conns[loaded_upstreams[u]].ntools > 0)
                   => CatalogOf(u) # {}

\* C2: when unload_upstream(X) returns success for a loaded X the catalog
\* holds no tool of upstream X, and a search never returns a tool of an
\* upstream that is not loaded.
C2_UnloadRemovesEveryTool ==
    /\ (event.kind = "unload" /\ event.success /\ event.conn # NoConn)
           => CatalogOf(event.upstream) = {}
    /\ event.kind = "search"
           => \A tool \in event.results : tool.upstream_id \in get_loaded_upstreams

\* C3: with load_upstream(X) and unload_upstream(X) running concurrently, a
\* load_upstream(X) that returns success with tool_count n is observable:
\* the catalog holds at least n tools of X when it returns.  Stated for the
\* configurations without a semantic_prefix, where every sequential run
\* satisfies it.
C3_SuccessfulLoadIsObservable ==
    (/\ \A u \in Upstreams : PrefixOf(u) = u
     /\ event.kind = "load" /\ event.success)
        => Cardinality(CatalogOf(event.upstream)) >= event.tool_count

\* C4: when load_upstream(X) returns an error after fetching, embedding or
\* adding failed, disconnect() was called on the connection of the attempt,
\* X is not loaded, and neither the catalog nor all_tools holds a tool made
\* by the attempt.
C4_FailedLoadLeavesNothing ==
    (event.kind = "load" /\ ~event.success /\ event.error \in {"fetch", "embed", "add"})
        => /\ event.conn # NoConn
           /\ conns[event.conn].disc_called
           /\ loaded_upstreams[Attempted(event)] = NoConn
           /\ upstreams[Attempted(event)] = NoConn
           /\ CatalogBy(event.conn) = {}
           /\ \A i \in 1..Len(all_tools) : all_tools[i].conn # event.conn

\* a load failed at add_tools and has returned
C4_Witness ==
    /\ event.kind = "load" /\ ~event.success /\ event.error = "add"
    /\ conns[event.conn].ntools > 0
    /\ se_tools # << >>

\* C5: load_upstream(X) for a loaded X returns success with the tool_count
\* the load that registered X returned, changes nothing, and no connection
\* is constructed for an upstream that is loaded.
C5_LoadOfLoadedIsIdempotent ==
    /\ [](event.kind = "load" /\ event.success
            => /\ loaded_upstreams[event.upstream] # NoConn
               /\ event.tool_count = conns[loaded_upstreams[event.upstream]].ntools)
    /\ [][(event'.kind = "load" /\ event'.conn = NoConn)
            => UNCHANGED <<se_tools, all_tools, loaded_upstreams, upstreams, conns, tasks>>]_vars
    /\ [][Len(conns') > Len(conns)
            => loaded_upstreams[conns'[Len(conns')].upstream_id] = NoConn]_vars

\* load_upstream returned on the already-loaded path for an upstream with
\* two tools while the other upstream is loaded too
C5_Witness ==
    /\ event.kind = "load" /\ event.success /\ event.conn = NoConn
    /\ event.tool_count = 2
    /\ get_loaded_upstreams = Upstreams

\* C6: unload_upstream(X) for a resolvable X that is not loaded returns
\* success and changes nothing; remove_tools is called only for a loaded
\* upstream, and after a successful unload X is not loaded, so a second
\* unload in a row calls neither remove_tools nor disconnect.
C6_UnloadOfNotLoadedIsNoOp ==
    /\ [][(event'.kind = "unload" /\ event'.conn = NoConn /\ event'.upstream # None)
            => /\ event'.success
               /\ loaded_upstreams[event'.upstream] = NoConn
               /\ UNCHANGED <<se_tools, all_tools, loaded_upstreams, upstreams, conns, tasks>>]_vars
    /\ [][(event'.kind = "remove_tools" /\ event' # event)
            => loaded_upstreams[event'.upstream] # NoConn]_vars
    /\ [](event.kind = "unload" /\ event.success
            => loaded_upstreams[event.upstream] = NoConn)

\* the second unload in a row has returned, the catalog is not empty
C6_Witness ==
    /\ event.kind = "unload" /\ event.success /\ event.conn = NoConn
    /\ \E c \in 1..Len(conns) :
          /\ conns[c].upstream_id = event.upstream
          /\ conns[c].registered /\ conns[c].disc_called
    /\ se_tools # << >>

\* C7: a load_upstream(X) that follows a successful load and unload of X,
\* reaches the upstream and meets no name of another upstream in its
\* namespace, succeeds: X is loaded with the new connection and the tools
\* it fetched are in the catalog.
C7_ReloadAfterUnloadSucceeds ==
    (/\ event.kind = "load" /\ event.conn # NoConn
     /\ event.error \notin {"connection_failed", "connection_timeout", "fetch", "embed"}
     /\ \E c \in 1..Len(conns) :
           /\ c < event.conn
           /\ conns[c].upstream_id = Attempted(event)
           /\ conns[c].registered /\ conns[c].disc_called
     /\ \A i \in 1..Len(se_tools) :
           se_tools[i].upstream_id # Attempted(event)
               => ~InNamespace(se_tools[i], PrefixOf(Attempted(event))))
        => /\ event.success
           /\ loaded_upstreams[Attempted(event)] = event.conn
           /\ Cardinality(CatalogBy(event.conn)) = conns[event.conn].ntools

\* C8: no two entries of the catalog have the same namespaced name.
C8_CatalogNamesUnique ==
    \A i, j \in 1..Len(se_tools) : i # j => se_tools[i].name # se_tools[j].name

\* C9: add_tools raises exactly when a tool of the batch has no embedding
\* or a name that is in the catalog, and then leaves the catalog as it
\* was; otherwise it appends the whole batch.
C9_AddToolsAllOrNothing ==
    [][event'.kind = "add_tools"
         => LET batch == event'.batch
                bad == \E i \in 1..Len(batch) :
                          ~batch[i].embedding \/ batch[i].name \in Names(se_tools)
            IN  /\ event'.raised <=> bad
                /\ bad => se_tools' = se_tools
                /\ ~bad => se_tools' = se_tools \o batch]_vars

\* add_tools raised on a batch that also had a tool it could have added
C9_Witness ==
    /\ event.kind = "add_tools" /\ event.raised
    /\ \E i \in 1..Len(event.batch) :
          event.batch[i].embedding /\ event.batch[i].name \notin Names(se_tools)
    /\ se_tools # << >>

\* C10: call_tool on the name of a catalog tool is forwarded, under the
\* tool's original name, to the connection of the upstream that
\* contributed the tool.
C10_CallReachesContributor ==
    (event.kind \in {"forward", "proxy_error"} /\ event.name \in Names(se_tools))
        => /\ event.kind = "forward"
           /\ \A i \in 1..Len(se_tools) :
                 se_tools[i].name = event.name
                     => /\ se_tools[i].upstream_id = event.upstream
                        /\ se_tools[i].conn = event.conn
                        /\ se_tools[i].original_name = event.tool_name

\* C11: when load_upstream(X) returns a connection failure or a connection
\* timeout, X is not loaded, the catalog and all_tools hold no tool of the
\* attempt, and neither the session nor the child process the attempt
\* opened is still open.
C11_FailedConnectLeavesNothingOpen ==
    (event.kind = "load" /\ event.error \in {"connection_failed", "connection_timeout"})
        => /\ ~event.success
           /\ loaded_upstreams[Attempted(event)] = NoConn
           /\ upstreams[Attempted(event)] = NoConn
           /\ CatalogBy(event.conn) = {}
           /\ \A i \in 1..Len(all_tools) : all_tools[i].conn # event.conn
           /\ ~conns[event.conn].session
           /\ ~conns[event.conn].open

\* C12: when remove_tools raises inside unload_upstream(X), the unload
\* returns an error, X stays registered with its connection in both dicts,
\* and the catalog, all_tools and every connection (so disconnect() was not
\* called) are as before.
C12_FailedRemovalChangesNothing ==
    /\ [](event.kind = "unload" /\ event.error = "remove"
            => /\ ~event.success
               /\ loaded_upstreams[Attempted(event)] = event.conn
               /\ upstreams[Attempted(event)] = event.conn
               /\ ~conns[event.conn].disc_called)
    /\ [][(event'.kind = "unload" /\ event'.error = "remove")
            => UNCHANGED <<se_tools, all_tools, loaded_upstreams, upstreams, conns, tasks>>]_vars

\* unload_upstream returned the error of remove_tools while the catalog
\* holds the upstream's tools
C12_Witness ==
    /\ event.kind = "unload" /\ event.error = "remove"
    /\ CatalogBy(event.conn) # {}
    /\ is_connected(conns[event.conn])

\* C13: when the disconnect() of unload_upstream(X) meets an exception (the
\* session is still set afterwards), the unload returns success and X is
\* gone from _loaded_upstreams, from the upstreams dict the proxy reads and
\* from all_tools.
C13_UnloadSurvivesDisconnectFailure ==
    (/\ event.kind = "unload" /\ event.conn # NoConn /\ event.error # "remove"
     /\ is_connected(conns[event.conn]))
        => /\ event.success
           /\ event.upstream = Attempted(event)
           /\ loaded_upstreams[event.upstream] = NoConn
           /\ upstreams[event.upstream] = NoConn
           /\ \A i \in 1..Len(all_tools) : all_tools[i].upstream_id # event.upstream

\* an unload whose disconnect() met an exception has returned, for an
\* upstream that had tools
C13_Witness ==
    /\ event.kind = "unload" /\ event.conn # NoConn /\ event.error # "remove"
    /\ is_connected(conns[event.conn])
    /\ conns[event.conn].disc_called
    /\ conns[event.conn].ntools > 0

\* C17: call_tool and fetch_tools on a connection that is not Ready (never
\* connected, connect() failed, or disconnected) fail with "not connected"
\* and send no request.
C17_NotReadyRefusesRequests ==
    (/\ event.kind = "conn" /\ event.op \in {"call_tool", "fetch_tools"}
     /\ ~conns[event.conn].ready)
        => event.result = "not_connected" /\ ~event.requested

\* C18: once a connect() has raised or a disconnect() has returned on an
\* instance, is_connected is never true on it again.
C18_FailedAndClosedAreTerminal ==
    \A c \in DOMAIN conns :
        (event.kind = "conn" /\ conns[c].ended) => ~is_connected(conns[c])

\* C19: a call_tool that ends with a tool error leaves the connection
\* connected, one that ends with a transport failure leaves it not connected.
C19_CallFailureAndConnectionState ==
    (event.kind = "conn" /\ event.op = "call_tool" /\ conns[event.conn].ready)
        => /\ event.result \in {"is_error", "mcp_error"}
                => is_connected(conns[event.conn])
           /\ event.result = "io_failure" => ~is_connected(conns[event.conn])

\* C20: disconnect() returns without raising in every state, is_connected is
\* false after it, and a second disconnect() right after it changes nothing.
C20_DisconnectIsFinalAndIdempotent ==
    /\ [](event.kind = "conn" /\ event.op = "disconnect"
            => event.result = "returned" /\ ~is_connected(conns[event.conn]))
    /\ [][(/\ event.kind = "conn" /\ event.op = "disconnect"
           /\ event'.op = "disconnect" /\ event'.conn = event.conn)
             => conns' = conns]_vars

\* the members of a list
Members(list) == { list[i] : i \in 1..Len(list) }

\* C14: when load_multiple_upstreams(names) returns, every requested name is
\* reported (a name that does not resolve in failed, the others under their
\* upstream id in loaded or failed), no upstream id is in both lists, every
\* resolved name got its load_upstream call, and every upstream in loaded is
\* loaded.
C14_LoadMultipleReportsEachNameOnce ==
    (frame.op = "load_multiple" /\ frame.pc = "done")
        => /\ \A i \in 1..Len(frame.names) :
                IF resolve(frame.names[i]) = None
                THEN \E j \in 1..Len(frame.failed) :
                        frame.failed[j].name = frame.names[i]
                ELSE \/ resolve(frame.names[i]) \in Members(frame.loaded)
                     \/ \E j \in 1..Len(frame.failed) :
                            frame.failed[j].name = resolve(frame.names[i])
           /\ \A j \in 1..Len(frame.failed) :
                frame.failed[j].name \notin Members(frame.loaded)
           /\ Len(frame.results) = Len(frame.resolved_names)
           /\ \A u \in Members(frame.loaded) : loaded_upstreams[u] # NoConn

\* C15: while load_multiple_upstreams runs, at most max_concurrent_upstreams
\* load_upstream calls are in flight.
C15_LoadMultipleBoundsConcurrency ==
    frame.op = "load_multiple" => InFlight <= max_concurrent_upstreams

\* C16: when initialize() returns, load_upstream has been called once for
\* every name of auto_load in order (the configured ids for ["all"], no call
\* for []), also after a failed load, and the loaded set is the set of the
\* upstreams whose load returned success.
C16_InitializeLoadsAutoLoad ==
    (frame.op = "initialize" /\ frame.pc = "done")
        => /\ Len(frame.results) = Len(frame.auto_load)
           /\ frame.attempted = Len(frame.auto_load)
           /\ \A i \in 1..Len(frame.results) :
                /\ frame.results[i].kind = "load"
                /\ frame.results[i].success
                     => frame.results[i].upstream = resolve(frame.auto_load[i])
                /\ resolve(frame.auto_load[i]) = None => ~frame.results[i].success
           /\ frame.configured = << All >> => Members(frame.auto_load) = Upstreams
           /\ frame.configured = << >> => conns = << >> /\ frame.results = << >>
           /\ get_loaded_upstreams =
                { frame.results[i].upstream :
                    i \in { j \in 1..Len(frame.results) : frame.results[j].success } }
           /\ InFlight = 0

\* initialize() has returned after a failed load was followed by a
\* successful one
C16_Witness ==
    /\ frame.op = "initialize" /\ frame.pc = "done"
    /\ Len(frame.results) = 2
    /\ ~frame.results[1].success /\ frame.results[1].conn # NoConn
    /\ frame.results[2].success
    /\ get_loaded_upstreams # {}

\* the number of call_tool requests in flight on connection c
CallsInFlight(c) ==
    BagCardinality([t \in { r \in BagToSet(tasks) : r.op = "call" /\ r.conn = c }
                       |-> CopiesIn(t, tasks)])

\* C21: at no time are two call_tool requests in flight on the same
\* UpstreamConnection.
C21_CallsOnOneConnectionSerialized ==
    \A c \in DOMAIN conns : CallsInFlight(c) <= 1

PrefixPart(name) == SubSeq(name, 1, FirstDot(name) - 1)

\* the upstreams a prefix stands for: the id itself or a semantic_prefix
Resolves(prefix) ==
    \/ prefix \in Upstreams
    \/ \E u \in Upstreams : config[u].semantic_prefix = prefix

C23_SearchAndCallLeaveCatalogAlone ==
    [][(\/ event'.kind \in {"search", "proxy_error", "forward", "call_return"}
        \/ frame'.op = "server" /\ frame'.state = "raised")
       => UNCHANGED <<se_tools, all_tools, loaded_upstreams, upstreams>>]_vars

\* C23: a proxied call was cancelled, or failed, while its upstream is loaded
\* with tools in the catalog
C23_Witness ==
    /\ frame.op = "server" /\ frame.state \in {"cancelled", "raised"}
    /\ event.kind = "call_return" /\ event.outcome \in {"cancelled", "timeout"}
    /\ loaded_upstreams[event.upstream] # NoConn
    /\ se_tools # << >> /\ all_tools # << >>

\* the upstream calls awaited by proxied calls
UpstreamCalls == BagCardinality([t \in { u \in DOMAIN tasks : u.op = "call" } |-> tasks[t]])

\* C25: a forwarded call starts exactly one upstream call, on the registered
\* connection, with the part of the name after its first dot and with the
\* caller's arguments; when that call ends, whatever the outcome, the
\* handler returns and no call is left or started again; a result is only
\* ever returned by the upstream call that this request sent
C25_OneUpstreamCallPerProxyCall ==
    [][/\ (event'.kind = "forward" /\ event' # event) =>
            /\ UpstreamCalls = 0 /\ UpstreamCalls' = 1
            /\ frame'.state = "forwarded"
            /\ frame'.sent.arguments = frame'.arguments
            /\ frame'.sent.conn = upstreams[event'.upstream]
            /\ LET n == frame'.name
                   tn == frame'.sent.tool_name
                   k == Len(n) - Len(tn)
               IN  /\ k >= 2 /\ n[k] = Dot
                   /\ SubSeq(n, k + 1, Len(n)) = tn
                   /\ ~HasDot(SubSeq(n, 1, k - 1))
       /\ (event'.kind = "call_return" /\ event' # event) =>
            /\ UpstreamCalls = 1 /\ UpstreamCalls' = 0
            /\ frame.state = "forwarded"
            /\ frame'.state \in {"returned", "raised", "cancelled"}
            /\ frame'.sent = frame.sent
       /\ (frame'.op = "server" /\ frame'.state = "returned" /\ frame' # frame) =>
            event'.kind = "call_return" /\ event' # event]_vars

\* C25: a call with arguments has been forwarded to a connection that has
\* tools
C25_Witness ==
    /\ frame.op = "server" /\ frame.state = "forwarded" /\ frame.arguments # {}
    /\ event.kind = "forward" /\ conns[event.conn].ntools > 0

\* the error status the client of call_tool is given: the handler returns a
\* list of content items, which carries no flag and is a successful result
ReportedError(f) == IF "is_error" \in DOMAIN f THEN f.is_error ELSE FALSE

\* C26: when a forwarded call returns a result, the client receives the
\* upstream's content items, each with its payload, in the upstream's order,
\* and the error status the upstream reported
C26_ResultReturnedUnmodified ==
    (frame.op = "server" /\ frame.state = "returned") =>
        LET up == frame.upstream_result
        IN  /\ Len(frame.content) = Len(up.content)
            /\ \A i \in 1..Len(up.content) :
                  /\ frame.content[i].type = up.content[i].type
                  /\ frame.content[i].text = up.content[i].text
                  /\ frame.content[i].data = up.content[i].data
                  /\ frame.content[i].mime_type = up.content[i].mimeType
                  /\ frame.content[i].uri = up.content[i].resource
            /\ ReportedError(frame) = up.isError

\* C27: when the upstream call of a forwarded request times out, the client
\* is given an upstream error (-32000) that says 'timed out' and names the
\* tool and the upstream the call was sent to; the step unregisters nothing
\* and leaves every connection as it was, so the upstream is still loaded
\* and its connection still connected
C27_TimeoutIsUpstreamError ==
    [][(event'.kind = "call_return" /\ event'.outcome = "timeout" /\ event' # event) =>
            /\ frame'.state = "raised"
            /\ frame'.code = ERROR_CODE_SERVER_ERROR
            /\ frame'.error = "timed out"
            /\ frame'.message.tool = frame.sent.tool_name
            /\ frame'.message.upstream = event'.upstream
            /\ UNCHANGED <<se_tools, all_tools, loaded_upstreams, upstreams, conns>>
            /\ upstreams'[event'.upstream] = frame.sent.conn
            /\ is_connected(conns'[frame.sent.conn])]_vars

\* C27: a call to a loaded upstream timed out and the upstream is still
\* loaded, with the connection the call was sent on
C27_Witness ==
    /\ frame.op = "server" /\ frame.state = "raised" /\ frame.error = "timed out"
    /\ event.kind = "call_return" /\ event.outcome = "timeout"
    /\ loaded_upstreams[event.upstream] # NoConn
    /\ upstreams[event.upstream] = frame.sent.conn

\* JSON Schema's reading of a type keyword: a boolean is no integer or number
SchemaTypeAccepts(value_type, expected_type) ==
    CASE expected_type = "string" -> value_type = "str"
      [] expected_type = "integer" -> value_type = "int"
      [] expected_type = "number" -> value_type \in {"int", "float"}
      [] expected_type = "boolean" -> value_type = "bool"
      [] OTHER -> TRUE

\* the arguments validate against the schema: no required field is missing,
\* no field is outside declared properties, every value has the declared
\* primitive type
Validates(params, schema) ==
    /\ \A required_field \in schema.required : \E p \in params : p[1] = required_field
    /\ schema.has_properties =>
          \A p \in params : \E prop \in schema.properties :
              prop[1] = p[1] /\ SchemaTypeAccepts(p[2], prop[2])

\* C28: the handler forwards a call to the proxy only for a name that is no
\* meta-tool name, that is the name of a known tool, and with arguments that
\* validate against that tool's input schema; a meta-tool name is handled
\* locally; an unknown name raises -32601 and invalid arguments raise -32602,
\* both without an upstream call
C28_ForwardsOnlyValidatedCalls ==
    [][/\ (event'.kind \in {"forward", "proxy_error"} /\ event' # event) =>
            /\ frame'.name \notin MetaNames
            /\ ToolKnown(frame'.name)
            /\ Validates(frame'.arguments, input_schema(get_tool_by_name(frame'.name)))
       /\ (frame'.op = "server" /\ frame'.name \in MetaNames) =>
            UpstreamCalls' = 0 /\ event'.kind \notin {"forward", "proxy_error"}
       /\ (frame'.op = "server" /\ frame' # frame /\ frame'.name \notin MetaNames
                /\ ~ToolKnown(frame'.name)) =>
            /\ frame'.state = "raised" /\ frame'.code = ERROR_CODE_METHOD_NOT_FOUND
            /\ UNCHANGED tasks
       /\ (frame'.op = "server" /\ frame' # frame /\ frame'.name \notin MetaNames
                /\ ToolKnown(frame'.name) /\ frame.state # "forwarded"
                /\ ~Validates(frame'.arguments,
                              input_schema(get_tool_by_name(frame'.name)))) =>
            /\ frame'.state = "raised" /\ frame'.code = ERROR_CODE_INVALID_PARAMS
            /\ UNCHANGED tasks]_vars

\* the upstreams that declare an alias equal to the name, case ignored
DeclaredBy(name) ==
    { u \in DOMAIN config :
        \E k \in 1..Len(config[u].aliases) : Lower(config[u].aliases[k]) = Lower(name) }

\* C29: a name that is exactly a configured id resolves to itself, also when
\* another upstream declares it as an alias; any other name resolves to an
\* upstream that declares it as an alias, case ignored; a name that is
\* neither raises; so an id written in another case resolves only when some
\* upstream declares it as an alias
C29_AliasResolution ==
    event.kind = "resolve" =>
        /\ event.name \in DOMAIN config => event.result = event.name
        /\ (event.name \notin DOMAIN config /\ DeclaredBy(event.name) # {}) =>
              event.result \in DeclaredBy(event.name)
        /\ (event.name \notin DOMAIN config /\ DeclaredBy(event.name) = {}) =>
              event.result = None

\* C29: an id was resolved that another upstream declares as its alias
C29_Witness ==
    /\ event.kind = "resolve" /\ event.name \in DOMAIN config
    /\ DeclaredBy(event.name) \ { event.name } # {}
    /\ event.result = event.name

C35_BooleansAreNotNumbers ==
    (frame.op = "server" /\ frame.name \notin MetaNames /\ frame.state # "raised"
        /\ ToolKnown(frame.name)) =>
        \A p \in frame.arguments :
            \A prop \in input_schema(get_tool_by_name(frame.name)).properties :
                p[1] = prop[1] =>
                    /\ ~(p[2] = "bool" /\ prop[2] \in {"integer", "number"})
                    /\ ~(p[2] \in {"int", "float"} /\ prop[2] = "boolean")

\* C36: with unload_upstream(X) calls running concurrently on a loaded X,
\* every call whose catalog removal succeeded returns success
C36_ConcurrentUnloadsSucceed ==
    (event.kind = "unload" /\ event.conn # NoConn /\ event.error # "remove")
        => event.success

\* C37: when the concurrent load_upstream(X) calls have all returned, the
\* connections of X that a load registered and that nobody disconnected are
\* at most the one registered now, and no name is in the catalog from two
\* connections
C37_ConcurrentLoadsLeaveOneConnection ==
    InFlight = 0 =>
        /\ \A c \in 1..Len(conns) :
              (conns[c].registered /\ ~conns[c].disc_called)
                  => loaded_upstreams[conns[c].upstream_id] = c
        /\ \A i, j \in 1..Len(se_tools) :
              se_tools[i].name = se_tools[j].name => se_tools[i].conn = se_tools[j].conn

\* the namespaced names of a tool list
NamesOf(tools) == { tools[i].name : i \in 1..Len(tools) }

\* C38: in every state, the suspension points of load_upstream and
\* unload_upstream included, the names in the all_tools mirror are the names
\* in the search engine's catalog
C38_MirrorNamesAreCatalogNames == NamesOf(all_tools) = NamesOf(se_tools)

\* the tools of a list that were not contributed by upstream u
OthersIn(tools, u) == SelectSeq(tools, LAMBDA tool : tool.upstream_id # u)

\* C39: the steps of unload_upstream(X), the removal from the catalog and
\* the deletion after the disconnect, leave the catalog entries and the
\* all_tools entries of every other upstream, and the registrations of every
\* other upstream, as they were
C39_UnloadTouchesOnlyItsUpstream ==
    [][(event' # event /\ (event'.kind = "remove_tools"
                            \/ (event'.kind = "unload" /\ event'.upstream # None))) =>
          /\ OthersIn(se_tools', event'.upstream) = OthersIn(se_tools, event'.upstream)
          /\ OthersIn(all_tools', event'.upstream) = OthersIn(all_tools, event'.upstream)
          /\ \A u \in Upstreams \ { event'.upstream } :
                /\ loaded_upstreams'[u] = loaded_upstreams[u]
                /\ upstreams'[u] = upstreams[u]]_vars

\* C40: in every state reached by loads, unloads and shutdown, the map the
\* proxy reads, upstreams, holds the same ids with the same connections as
\* the loaded map
C40_ProxyMapIsLoadedMap ==
    \A u \in Upstreams : upstreams[u] = loaded_upstreams[u]

\* C33: when the process has exited on an interrupt, its status is zero,
\* disconnect was called on every connection that was registered, no
\* upstream is registered and the tool list is empty
C33_InterruptShutsDownGracefully ==
    frame.op = "exit" =>
        /\ frame.status = 0
        /\ \A c \in 1..Len(conns) :
              (conns[c].registered /\ is_connected(conns[c])) => conns[c].disc_called
        /\ Registered = {}
        /\ all_tools = << >>

\* the upstreams of a tool list
UpstreamsIn(tools) == { tools[i].upstream_id : i \in 1..Len(tools) }

\* C31: select_default_tool_subset returns at most max_tools tools, and when
\* two or more upstreams have a tool in the list, at least two upstreams
\* appear in the result
C31_DefaultSubsetIsDiverse ==
    event.kind = "subset" =>
        /\ Len(event.result) <= event.max_tools
        /\ Cardinality(UpstreamsIn(event.tools)) >= 2
              => Cardinality(UpstreamsIn(event.result)) >= 2

\* C31, for limits that leave room for two tools: select_default_tool_subset
\* returns at most max_tools tools, all from the list, and when max_tools is
\* at least two and two or more upstreams have a tool in the list, at least
\* two upstreams appear in the result
C31_DefaultSubsetIsDiverseFromTwo ==
    event.kind = "subset" =>
        /\ Len(event.result) <= event.max_tools
        /\ \A i \in 1..Len(event.result) :
              \E j \in 1..Len(event.tools) : event.tools[j] = event.result[i]
        /\ (event.max_tools >= 2 /\ Cardinality(UpstreamsIn(event.tools)) >= 2)
              => Cardinality(UpstreamsIn(event.result)) >= 2

\* C31: the function cut a list of more tools than the default limit, whose
\* first twenty tools are of one upstream, down to the limit
C31_Witness ==
    /\ event.kind = "subset" /\ event.max_tools = DefaultMaxTools
    /\ Len(event.tools) > DefaultMaxTools
    /\ Len(event.result) = DefaultMaxTools
    /\ Cardinality(UpstreamsIn(event.result)) = 2

\* C34: a search with a query text on a catalog that is not empty returns
\* min(top_k, catalog size) results, each a different entry of the catalog
\* with its similarity, in descending order of similarity, and no entry left
\* out has a higher similarity than a returned one; a search on an empty
\* catalog raises
C34_SearchReturnsTopK ==
    (event.kind = "engine_search" /\ ~query_is_empty(frame.query)) =>
        IF se_tools = << >> THEN event.raised # ""
        ELSE LET results == event.results
             IN  /\ event.raised = ""
                 /\ Len(results) = Min(frame.top_k, Len(se_tools))
                 /\ \A r, q \in 1..Len(results) :
                       r < q => results[r].similarity >= results[q].similarity
                 /\ \E entry \in [1..Len(results) -> 1..Len(se_tools)] :
                       /\ \A r, q \in 1..Len(results) : r # q => entry[r] # entry[q]
                       /\ \A r \in 1..Len(results) :
                             /\ results[r].tool = se_tools[entry[r]]
                             /\ results[r].similarity = frame.similarities[entry[r]]
                       /\ \A r \in 1..Len(results) :
                             \A j \in 1..Len(se_tools) :
                                 (\A q \in 1..Len(results) : entry[q] # j)
                                   => frame.similarities[j] <= results[r].similarity

\* C34: a search for two tools in a catalog of three returned the second and
\* the third tool of the catalog, the third one first
C34_Witness ==
    /\ event.kind = "engine_search" /\ event.raised = ""
    /\ Len(se_tools) = 3 /\ frame.top_k = 2
    /\ Len(event.results) = 2
    /\ event.results[1].tool = se_tools[3]
    /\ event.results[2].tool = se_tools[2]

====
